---- MODULE Spec2Model ----
(***************************************************************************)
(* A model of hidl-gen's driver (main.cpp): option parsing, the formats    *)
(* table, the per-fqname loop, the Android.bp planner and the              *)
(* Java-compatibility traversal.                                           *)
(*                                                                         *)
(* Strings that the code only compares or concatenates are TLA+ strings.   *)
(* Paths, whose last character the code inspects, are sequences of         *)
(* one-character strings.  A dotted identifier (a package, a local name)   *)
(* is the sequence of its components.                                      *)
(***************************************************************************)
EXTENDS Integers, Sequences, FiniteSets, TLC

VARIABLES
    \* the file system and the coordinator's view of it
    dirs,               \* package -> [ok, names]: the package directory listing
    asts,               \* interface -> the AST coordinator->parse yields, or NullAST
    \* main()
    pc,                 \* position in the program
    outputFormat,       \* OutputHandler *outputFormat: an index into formats, 0 for nullptr
    outputPath,         \* std::string outputPath
    mRootPath,          \* Coordinator::mRootPath
    mVerbose,           \* Coordinator::mVerbose
    mPackageRoots,      \* Coordinator: the registered package roots
    langArgs,           \* the arguments of the -L options seen so far
    generateForTest,    \* static bool generateForTest
    argv,               \* the positional fqnames, argv[0 .. argc - 1] after the options
    argi,               \* loop index i of the fqname loop
    fqName,             \* the FQName of argv[i]
    exitStatus,         \* "running", or the status the process ended with: "0", "1"
    log,                \* validator / generator / getFormatter calls, in order
    \* isPackageJavaCompatible()
    todo,               \* std::vector<FQName> todo
    seen,               \* std::set<FQName> seen
    jcFqName,           \* the interface popped last (fqName of the loop body)
    compatible,         \* *compatible: {} while unassigned, then {TRUE} or {FALSE}
    jcStatus,           \* the status returned, "none" before the return
    \* generateAndroidBpForPackage()
    packageInterfaces, importedPackagesHierarchy, exportedTypes, typesAST,
    isTypesOnly, isJavaCompatible,  \* {} while unassigned, then {TRUE} or {FALSE}
    genStatus,
    out,                \* the rules written through the Formatter of this call
    files,              \* Android.bp files on disk: package -> rules
    once,               \* static bool once (generateAndroidBpJavaExportsForPackage)
    manifest,           \* current.txt: interface -> the digest recorded for it
    parses,             \* the coordinator->parse calls of the process, in order
    returned,           \* the statuses the generators returned to main, in order
    stdout              \* the lines printed with printf

envVars == <<dirs, asts, manifest>>
mainVars == <<outputFormat, outputPath, mRootPath, mVerbose, mPackageRoots, langArgs,
              generateForTest, argv, argi, fqName, exitStatus>>
jcVars == <<todo, seen, jcFqName, compatible, jcStatus>>
bpVars == <<packageInterfaces, importedPackagesHierarchy, exportedTypes, typesAST,
            isTypesOnly, isJavaCompatible, genStatus, out, files, once>>
vars == <<dirs, asts, pc, outputFormat, outputPath, mRootPath, mVerbose,
          mPackageRoots, langArgs, generateForTest, argv, argi, fqName, exitStatus, log,
          todo, seen, jcFqName, compatible, jcStatus,
          packageInterfaces, importedPackagesHierarchy, exportedTypes, typesAST,
          isTypesOnly, isJavaCompatible, genStatus, out, files, once,
          manifest, parses, returned, stdout>>

(***************************************************************************)
(* Bounds of the model.                                                    *)
(***************************************************************************)
MaxArgs == 2        \* positional fqnames on the command line
MaxSubTypes == 1    \* named types declared at the top of a types.hal

(***************************************************************************)
(* Sequences.                                                              *)
(***************************************************************************)
Range(s) == {s[i] : i \in 1..Len(s)}

Last(s) == s[Len(s)]

Front(s) == SubSeq(s, 1, Len(s) - 1)

RECURSIVE Join(_, _)
Join(parts, sep) ==
    IF parts = <<>> THEN ""
    ELSE IF Len(parts) = 1 THEN parts[1]
    ELSE parts[1] \o sep \o Join(Tail(parts), sep)

\* the members of set S in the order of the sequence order
RECURSIVE Select(_, _)
Select(order, S) ==
    IF order = <<>> THEN <<>>
    ELSE IF Head(order) \in S THEN <<Head(order)>> \o Select(Tail(order), S)
    ELSE Select(Tail(order), S)

(***************************************************************************)
(* FQName (hidl-util).  package, version and name are sequences of their   *)
(* components: android.hardware.nfc@1.0::IFoo is                           *)
(* <<"android","hardware","nfc">>, <<"1","0">>, <<"IFoo">>.                *)
(***************************************************************************)
FQ(p, v, n) == [package |-> p, version |-> v, name |-> n, mValid |-> TRUE]

InvalidFQName == [package |-> <<>>, version |-> <<>>, name |-> <<>>, mValid |-> FALSE]

isValid(fq) == fq.mValid

package(fq) == Join(fq.package, ".")

version(fq) == Join(fq.version, ".")

name(fq) == Join(fq.name, ".")

isFullyQualified(fq) == fq.package # <<>> /\ fq.version # <<>> /\ fq.name # <<>>

\* FQName::string(): package@version::name, each part only when present
string(fq) ==
    package(fq)
    \o (IF fq.version = <<>> THEN "" ELSE "@" \o version(fq))
    \o (IF fq.name = <<>> THEN ""
        ELSE (IF fq.package = <<>> /\ fq.version = <<>> THEN "" ELSE "::") \o name(fq))

\* FQName::inPackage: the components of prefix start the package's components
inPackage(fq, prefix) ==
    /\ Len(prefix) <= Len(fq.package)
    /\ SubSeq(fq.package, 1, Len(prefix)) = prefix

getTypesForPackage(fq) == FQ(fq.package, fq.version, <<"types">>)

\* the package an interface lives in
packageOf(fq) == FQ(fq.package, fq.version, <<>>)

gIBasePackageFqName == FQ(<<"android", "hidl", "base">>, <<>>, <<>>)

gIManagerPackageFqName == FQ(<<"android", "hidl", "manager">>, <<>>, <<>>)

gIBaseFqName == FQ(<<"android", "hidl", "base">>, <<"1", "0">>, <<"IBase">>)

(***************************************************************************)
(* The packages and interfaces of the model's file systems.                *)
(***************************************************************************)
NfcPkg == FQ(<<"android", "hardware", "nfc">>, <<"1", "0">>, <<>>)

\* a later minor version of the same package
Nfc11Pkg == FQ(<<"android", "hardware", "nfc">>, <<"1", "1">>, <<>>)

BasePkg == FQ(<<"android", "hidl", "base">>, <<"1", "0">>, <<>>)

MemoryPkg == FQ(<<"android", "hidl", "memory">>, <<"1", "0">>, <<>>)

VendorPkg == FQ(<<"vendor", "acme", "foo">>, <<"1", "0">>, <<>>)

Packages == {NfcPkg, Nfc11Pkg, BasePkg, MemoryPkg, VendorPkg}

\* FQName::operator< on the packages above: ascending order of string()
PackageOrder == <<NfcPkg, Nfc11Pkg, BasePkg, MemoryPkg, VendorPkg>>

\* iteration order of a std::set<FQName> of packages
SetOrder(S) == Select(PackageOrder, S)

Iface(pkg, n) == FQ(pkg.package, pkg.version, <<n>>)

Interfaces == {Iface(p, n) : p \in Packages, n \in {"types", "IFoo"}}

(***************************************************************************)
(* AST and Coordinator (outside main.cpp).                                 *)
(***************************************************************************)
NullAST == [null |-> TRUE]

AST(jc, imp, hier, exp, sub) ==
    [null |-> FALSE, javaCompatible |-> jc, importedPackages |-> imp,
     importedPackagesHierarchy |-> hier, exportedTypes |-> exp, subTypes |-> sub]

Root(prefix, path) == [root |-> prefix, path |-> path]

\* the -r option that registers a package root
RootOption(r) == Join(r.root, ".") \o ":" \o r.path

\* main.cpp 1474-1477: the roots addDefaultPackagePath registers
DefaultPackageRoots ==
    {Root(<<"android", "hardware">>, "hardware/interfaces"),
     Root(<<"android", "hidl">>, "system/libhidl/transport"),
     Root(<<"android", "frameworks">>, "frameworks/hardware/interfaces"),
     Root(<<"android", "system">>, "system/hardware/interfaces")}

VendorRoot == Root(<<"vendor", "acme">>, "vendor/acme/interfaces")

\* ascending order of the option strings (iteration order of std::set<std::string>)
OptionOrder ==
    <<RootOption(Root(<<"android", "frameworks">>, "frameworks/hardware/interfaces")),
      RootOption(Root(<<"android", "hardware">>, "hardware/interfaces")),
      RootOption(Root(<<"android", "hidl">>, "system/libhidl/transport")),
      RootOption(Root(<<"android", "system">>, "system/hardware/interfaces")),
      RootOption(VendorRoot)>>

\* Coordinator::addDefaultPackagePath: only when the prefix is not registered
addDefaultPackagePaths(roots) ==
    roots \cup {d \in DefaultPackageRoots : \A r \in roots : r.root # d.root}

\* the registered roots whose prefix starts the package
RootsOf(fq) == {r \in mPackageRoots : inPackage(fq, r.root)}

\* Coordinator::getPackageRootOption; the prefixes of the model do not nest
getPackageRootOption(fq) ==
    IF RootsOf(fq) = {} THEN "" ELSE RootOption(CHOOSE r \in RootsOf(fq) : TRUE)

\* Hash::getHash(path).hexString(): the digest of the interface's file
getHash(fq) == "sha256:" \o string(fq)

\* a digest recorded when the file had other bytes
StaleDigest == "sha256:released"

\* the manifest records for the interface a digest that is not the file's
HashMismatch(fq) == fq \in DOMAIN manifest /\ manifest[fq] # getHash(fq)

\* coordinator->parse(fqName, parsed, enforcement): the AST, or null; under
\* Enforce::NO_HASH the manifest is not consulted
parseEnforced(fq, enforcement) ==
    IF RootsOf(fq) = {} \/ fq \notin DOMAIN asts THEN NullAST
    ELSE IF enforcement # "NO_HASH" /\ HashMismatch(fq) THEN NullAST
    ELSE asts[fq]

\* coordinator->parse(fqName): the default arguments
parse(fq) == parseEnforced(fq, "DEFAULT")

\* a call of coordinator->parse, as kept in parses
Parsed(fq, enforcement) == [fqName |-> fq, enforcement |-> enforcement]

NoDir == [ok |-> FALSE, names |-> <<>>]

Dir(names) == [ok |-> TRUE, names |-> names]

DirOf(pkg) == IF RootsOf(pkg) # {} /\ pkg \in DOMAIN dirs THEN dirs[pkg] ELSE NoDir

\* coordinator->appendPackageInterfacesToVector(package, &v): status and the
\* interfaces appended, types first
appendPackageInterfacesToVector(pkg) ==
    LET d == DirOf(pkg) IN
    IF d.ok THEN [err |-> "OK", v |-> [i \in 1..Len(d.names) |-> Iface(pkg, d.names[i])]]
    ELSE [err |-> "IO_ERROR", v |-> <<>>]

\* coordinator->isTypesOnlyPackage(package, &result)
isTypesOnlyPackage(pkg) ==
    LET r == appendPackageInterfacesToVector(pkg) IN
    IF r.err # "OK" THEN [err |-> r.err, result |-> FALSE]
    ELSE [err |-> "OK",
          result |-> (Len(r.v) = 1 /\ name(r.v[1]) = "types")]

(***************************************************************************)
(* isPackageJavaCompatible (main.cpp 218-277).                             *)
(***************************************************************************)
\* mutant: an unseen interface is marked seen but never pushed
RECURSIVE PushUnseenLosesPush(_, _, _)
PushUnseenLosesPush(ifaces, td, sn) ==
    IF ifaces = <<>> THEN [todo |-> td, seen |-> sn]
    ELSE PushUnseenLosesPush(Tail(ifaces), td, sn \cup {Head(ifaces)})

\* mutant: an unseen interface is pushed but not inserted into seen
RECURSIVE PushUnseenForgets(_, _, _)
PushUnseenForgets(ifaces, td, sn) ==
    IF ifaces = <<>> THEN [todo |-> td, seen |-> sn]
    ELSE IF Head(ifaces) \in sn THEN PushUnseenForgets(Tail(ifaces), td, sn)
    ELSE PushUnseenForgets(Tail(ifaces), Append(td, Head(ifaces)), sn)

\* lines 264-271: push the interfaces not seen yet
RECURSIVE PushUnseen(_, _, _)
PushUnseen(ifaces, td, sn) ==
    IF ifaces = <<>> THEN [todo |-> td, seen |-> sn]
    ELSE IF Head(ifaces) \in sn THEN PushUnseen(Tail(ifaces), td, sn)
    ELSE PushUnseen(Tail(ifaces), Append(td, Head(ifaces)), sn \cup {Head(ifaces)})

\* mutant: an imported package that cannot be enumerated is skipped
RECURSIVE PushImportedIgnoresError(_, _, _)
PushImportedIgnoresError(pkgs, td, sn) ==
    IF pkgs = <<>> THEN [err |-> "OK", todo |-> td, seen |-> sn]
    ELSE LET p == PushUnseen(appendPackageInterfacesToVector(Head(pkgs)).v, td, sn) IN
         PushImportedIgnoresError(Tail(pkgs), p.todo, p.seen)

\* lines 255-272: for each imported package, in set order, enumerate and push
RECURSIVE PushImported(_, _, _)
PushImported(pkgs, td, sn) ==
    IF pkgs = <<>> THEN [err |-> "OK", todo |-> td, seen |-> sn]
    ELSE LET r == appendPackageInterfacesToVector(Head(pkgs)) IN
         IF r.err # "OK" THEN [err |-> r.err, todo |-> td, seen |-> sn]
         ELSE LET p == PushUnseen(r.v, td, sn) IN
              PushImported(Tail(pkgs), p.todo, p.seen)

\* lines 222-233: the call, up to the loop
JcStart ==
    /\ pc = "jc_call"
    /\ LET r == appendPackageInterfacesToVector(fqName) IN
       IF r.err # "OK"
       THEN /\ jcStatus' = r.err
            /\ pc' = "jc_return"
            /\ UNCHANGED <<todo, seen>>
       ELSE /\ todo' = r.v
            /\ seen' = Range(r.v)
            /\ pc' = "jc_loop"
            /\ UNCHANGED jcStatus
    /\ UNCHANGED <<jcFqName, compatible>>
    /\ UNCHANGED <<envVars, parses, returned, stdout, mainVars, bpVars, log>>

\* lines 237-273: one iteration of the while loop
JcIter ==
    /\ pc = "jc_loop"
    /\ todo # <<>>
    /\ jcFqName' = Last(todo)
    /\ parses' = Append(parses, Parsed(Last(todo), "DEFAULT"))
    /\ LET ast == parse(Last(todo)) IN
       IF ast.null
       THEN /\ jcStatus' = "UNKNOWN_ERROR"
            /\ pc' = "jc_return"
            /\ todo' = Front(todo)
            /\ UNCHANGED <<seen, compatible>>
       ELSE IF ~ast.javaCompatible
       THEN /\ compatible' = {FALSE}
            /\ jcStatus' = "OK"
            /\ pc' = "jc_return"
            /\ todo' = Front(todo)
            /\ UNCHANGED seen
       ELSE LET r == PushImported(SetOrder(ast.importedPackages), Front(todo), seen) IN
            /\ todo' = r.todo
            /\ seen' = r.seen
            /\ UNCHANGED compatible
            /\ IF r.err # "OK"
               THEN jcStatus' = r.err /\ pc' = "jc_return"
               ELSE UNCHANGED jcStatus /\ pc' = "jc_loop"
    /\ UNCHANGED <<envVars, returned, stdout, mainVars, bpVars, log>>

\* lines 237, 275-276: the worklist is empty
JcFinish ==
    /\ pc = "jc_loop"
    /\ todo = <<>>
    /\ compatible' = {TRUE}
    /\ jcStatus' = "OK"
    /\ pc' = "jc_return"
    /\ UNCHANGED <<todo, seen, jcFqName>>
    /\ UNCHANGED <<envVars, parses, returned, stdout, mainVars, bpVars, log>>

(***************************************************************************)
(* Names and predicates of the Android.bp planner (main.cpp 180-194,       *)
(* 279-351).                                                               *)
(***************************************************************************)
hidl_gen == "hidl-gen"

makeLibraryName(packageFQName) == string(packageFQName)

makeHalFilegroupName(packageFQName) == string(packageFQName) \o "_hal"

makeJavaLibraryName(packageFQName) ==
    package(packageFQName) \o "-V" \o version(packageFQName) \o "-java"

\* mutant: a typedef counts as a declaration that needs Java code
NonTypeDefsCountsAll(subTypes) == 1..Len(subTypes)

\* the sub-types of the root scope that are not typedefs
NonTypeDefs(subTypes) == {i \in 1..Len(subTypes) : ~subTypes[i].isTypeDef}

packageNeedsJavaCode(ifaces, types) ==
    IF Len(ifaces) = 0 THEN FALSE
    ELSE IF Len(ifaces) > 1 \/ name(ifaces[1]) # "types" THEN TRUE
    ELSE NonTypeDefs(types.subTypes) # {}

\* mutant: android.hidl.base is taken for an ordinary package
isHidlTransportPackageManagerOnly(fq) == package(fq) = string(gIManagerPackageFqName)

isHidlTransportPackage(fq) ==
    \/ package(fq) = string(gIBasePackageFqName)
    \/ package(fq) = string(gIManagerPackageFqName)

isSystemProcessSupportedPackage(fq) ==
    string(fq) \in {"android.hardware.graphics.allocator@2.0",
                    "android.hardware.graphics.common@1.0",
                    "android.hardware.graphics.mapper@2.0",
                    "android.hardware.graphics.mapper@2.1",
                    "android.hardware.renderscript@1.0",
                    "android.hidl.memory@1.0"}

isSystemPackage(fq) ==
    \/ inPackage(fq, <<"android", "hidl">>)
    \/ inPackage(fq, <<"android", "system">>)
    \/ inPackage(fq, <<"android", "frameworks">>)
    \/ inPackage(fq, <<"android", "hardware">>)

(***************************************************************************)
(* Derived names and paths (FQName, Coordinator::getFilepath).             *)
(***************************************************************************)
\* name().substr(1) of the interface names of the model
getInterfaceBaseName(fq) == IF name(fq) = "IFoo" THEN "Foo" ELSE name(fq)

getInterfaceHwName(fq) == "IHw" \o getInterfaceBaseName(fq)

getInterfaceStubName(fq) == "BnHw" \o getInterfaceBaseName(fq)

getInterfaceProxyName(fq) == "BpHw" \o getInterfaceBaseName(fq)

getInterfacePassthroughName(fq) == "Bs" \o getInterfaceBaseName(fq)

getInterfaceAdapterName(fq) == name(fq) \o "Adapter"

\* getFilepath("", fq, GEN_OUTPUT)
GenOutputPath(fq) == Join(fq.package, "/") \o "/" \o version(fq) \o "/"

\* getFilepath("", fq, GEN_SANITIZED)
GenSanitizedPath(fq) == Join(fq.package, "/") \o "/V" \o Join(fq.version, "_") \o "/"

RECURSIVE Flatten(_)
Flatten(ss) == IF ss = <<>> THEN <<>> ELSE Head(ss) \o Flatten(Tail(ss))

Comment(text) == [rule |-> "comment", text |-> text]

(***************************************************************************)
(* The sections of Android.bp (main.cpp 196-216, 353-484, 535-832).  A     *)
(* build file is the sequence of its rules and comment lines.              *)
(***************************************************************************)
\* lines 196-216: the -r options, each once, in ascending order
generatePackagePathsSection(packageFQName, importedPackages) ==
    Select(OptionOrder,
           {getPackageRootOption(i) : i \in importedPackages}
           \cup {getPackageRootOption(packageFQName), getPackageRootOption(gIBaseFqName)})

\* lines 353-392; outs is what outputFn wrote over packageInterfaces
generateAndroidBpGenSection(packageFQName, genName, language, importedPackages, outs) ==
    [rule |-> "genrule",
     name |-> genName,
     tools |-> <<hidl_gen>>,
     language |-> language,
     roots |-> generatePackagePathsSection(packageFQName, importedPackages),
     fqname |-> string(packageFQName),
     srcs |-> <<":" \o makeHalFilegroupName(packageFQName)>>,
     out |-> outs]

\* mutant: the transport packages are listed like the others
DependencyListKeepsTransport(hierarchy) ==
    [i \in 1..Len(SetOrder(hierarchy)) |-> makeLibraryName(SetOrder(hierarchy)[i])]

\* lines 394-405
generateAndroidBpDependencyList(hierarchy) ==
    LET deps == SetOrder({q \in hierarchy : ~isHidlTransportPackage(q)}) IN
    [i \in 1..Len(deps) |-> makeLibraryName(deps[i])]

\* lines 432-455: the placement attributes of a library location
LibraryPlacement(libraryLocation, packageFQName) ==
    CASE libraryLocation = "VENDOR" ->
            [vendor |-> TRUE, vendor_available |-> FALSE, vndk |-> FALSE,
             support_system_process |-> FALSE]
      [] libraryLocation = "VENDOR_AVAILABLE" ->
            [vendor |-> FALSE, vendor_available |-> TRUE, vndk |-> FALSE,
             support_system_process |-> FALSE]
      [] libraryLocation = "VNDK" ->
            [vendor |-> FALSE, vendor_available |-> TRUE, vndk |-> TRUE,
             support_system_process |-> isSystemProcessSupportedPackage(packageFQName)]

\* lines 414-484; dependencies is what generateDependencies writes, each time
generateAndroidBpCppLibSection(libraryLocation, packageFQName, libraryName, genSourceName, genHeaderName, dependencies) ==
    [rule |-> "cc_library",
     name |-> libraryName,
     defaults |-> <<"hidl-module-defaults">>,
     generated_sources |-> <<genSourceName>>,
     generated_headers |-> <<genHeaderName>>,
     export_generated_headers |-> <<genHeaderName>>,
     placement |-> LibraryPlacement(libraryLocation, packageFQName),
     shared_libs |-> <<"libhidlbase", "libhidltransport", "libhwbinder", "liblog",
                       "libutils", "libcutils">> \o dependencies,
     export_shared_lib_headers |-> <<"libhidlbase", "libhidltransport", "libhwbinder",
                                     "libutils">> \o dependencies]

\* lines 557-563
CppSourceOut(fq) ==
    IF name(fq) = "types" THEN <<GenOutputPath(fq) \o "types.cpp">>
    ELSE <<GenOutputPath(fq) \o getInterfaceBaseName(fq) \o "All.cpp">>

\* lines 576-586
CppHeaderOut(fq) ==
    <<GenOutputPath(fq) \o name(fq) \o ".h">>
    \o (IF name(fq) # "types"
        THEN <<GenOutputPath(fq) \o getInterfaceHwName(fq) \o ".h",
               GenOutputPath(fq) \o getInterfaceStubName(fq) \o ".h",
               GenOutputPath(fq) \o getInterfaceProxyName(fq) \o ".h",
               GenOutputPath(fq) \o getInterfacePassthroughName(fq) \o ".h">>
        ELSE <<GenOutputPath(fq) \o "hwtypes.h">>)

\* mutant: test mode does not keep a system package out of the VNDK
MainLibraryLocationIgnoresTest(packageFQName, forTest) ==
    IF isSystemPackage(packageFQName) THEN "VNDK" ELSE "VENDOR_AVAILABLE"

\* mutant: a library generated for tests is a vendor library
MainLibraryLocationVendorForTest(packageFQName, forTest) ==
    IF forTest THEN "VENDOR"
    ELSE IF isSystemPackage(packageFQName) THEN "VNDK" ELSE "VENDOR_AVAILABLE"

\* line 591: the location of the package's own library
MainLibraryLocation(packageFQName, forTest) ==
    IF ~forTest /\ isSystemPackage(packageFQName) THEN "VNDK" ELSE "VENDOR_AVAILABLE"

\* mutant: the library of the package comes before the genrules it names
DefinitionLibsLibraryFirst(packageFQName, ifaces, hierarchy, forTest) ==
    LET libraryName == makeLibraryName(packageFQName)
        genSourceName == libraryName \o "_genc++"
        genHeaderName == libraryName \o "_genc++_headers"
    IN  (IF isHidlTransportPackage(packageFQName)
         THEN <<Comment(string(packageFQName) \o " is exported from libhidltransport")>>
         ELSE <<generateAndroidBpCppLibSection(
                    MainLibraryLocation(packageFQName, forTest), packageFQName,
                    libraryName, genSourceName, genHeaderName,
                    generateAndroidBpDependencyList(hierarchy))>>)
        \o <<generateAndroidBpGenSection(packageFQName, genSourceName, "c++-sources", hierarchy,
                 Flatten([i \in 1..Len(ifaces) |-> CppSourceOut(ifaces[i])])),
             generateAndroidBpGenSection(packageFQName, genHeaderName, "c++-headers", hierarchy,
                 Flatten([i \in 1..Len(ifaces) |-> CppHeaderOut(ifaces[i])]))>>

\* lines 535-606
generateAndroidBpDefinitionLibsForPackage(packageFQName, ifaces, hierarchy, forTest) ==
    LET libraryName == makeLibraryName(packageFQName)
        genSourceName == libraryName \o "_genc++"
        genHeaderName == libraryName \o "_genc++_headers"
    IN  <<generateAndroidBpGenSection(packageFQName, genSourceName, "c++-sources", hierarchy,
              Flatten([i \in 1..Len(ifaces) |-> CppSourceOut(ifaces[i])])),
          generateAndroidBpGenSection(packageFQName, genHeaderName, "c++-headers", hierarchy,
              Flatten([i \in 1..Len(ifaces) |-> CppHeaderOut(ifaces[i])]))>>
        \o (IF isHidlTransportPackage(packageFQName)
            THEN <<Comment(string(packageFQName) \o " is exported from libhidltransport")>>
            ELSE <<generateAndroidBpCppLibSection(
                       MainLibraryLocation(packageFQName, forTest), packageFQName,
                       libraryName, genSourceName, genHeaderName,
                       generateAndroidBpDependencyList(hierarchy))>>)

\* lines 639-644: the sub-types in ascending order of their names
TypeNameOrder == <<"Alpha", "Beta", "Gamma">>

\* mutant: the sub-types are written in the order they are declared
SubTypesAsDeclared(subTypes) == subTypes

\* lines 638-643: std::sort by fqName
SortedSubTypes(subTypes) ==
    LET names == Select(TypeNameOrder, {subTypes[i].localName : i \in 1..Len(subTypes)}) IN
    [i \in 1..Len(names) |-> CHOOSE t \in Range(subTypes) : t.localName = names[i]]

\* lines 630-653
JavaOut(fq, types) ==
    IF name(fq) # "types" THEN <<GenSanitizedPath(fq) \o name(fq) \o ".java">>
    ELSE LET sorted == SortedSubTypes(types.subTypes)
             kept == SelectSeq(sorted, LAMBDA t : ~t.isTypeDef)
         IN  [i \in 1..Len(kept) |-> GenSanitizedPath(fq) \o kept[i].localName \o ".java"]

\* mutant: the Java genrule without its java_library
JavaLibsWithoutLibrary(packageFQName, ifaces, hierarchy, types) ==
    <<generateAndroidBpGenSection(packageFQName, makeJavaLibraryName(packageFQName) \o "_gen_java",
          "java", hierarchy, Flatten([i \in 1..Len(ifaces) |-> JavaOut(ifaces[i], types)]))>>

\* lines 608-671
generateAndroidBpJavaLibsForPackage(packageFQName, ifaces, hierarchy, types) ==
    LET libraryName == makeJavaLibraryName(packageFQName)
        genJavaName == libraryName \o "_gen_java"
        libs == SetOrder(hierarchy)
    IN  <<generateAndroidBpGenSection(packageFQName, genJavaName, "java", hierarchy,
              Flatten([i \in 1..Len(ifaces) |-> JavaOut(ifaces[i], types)])),
          [rule |-> "java_library",
           name |-> libraryName,
           defaults |-> <<"hidl-java-module-defaults">>,
           srcs |-> <<":" \o genJavaName>>,
           libs |-> <<"hwbinder">> \o [i \in 1..Len(libs) |-> makeJavaLibraryName(libs[i])]]>>

\* lines 701-707: what the lambda writes over packageInterfaces, given the
\* static flag on entry
ConstantsOut(packageFQName, ifaces, onceBefore) ==
    IF Len(ifaces) > 0 /\ ~onceBefore
    THEN <<GenSanitizedPath(packageFQName) \o "Constants.java">>
    ELSE <<>>

\* lines 702-706: the static flag after the lambda ran over packageInterfaces
OnceAfter(ifaces, onceBefore) == onceBefore \/ Len(ifaces) > 0

\* mutant: the constants genrule without its java_library
JavaExportsWithoutLibrary(packageFQName, ifaces, hierarchy, onceBefore) ==
    <<generateAndroidBpGenSection(packageFQName,
          makeJavaLibraryName(packageFQName) \o "-constants_gen_java", "java-constants",
          hierarchy, ConstantsOut(packageFQName, ifaces, onceBefore))>>

\* lines 673-717
generateAndroidBpJavaExportsForPackage(packageFQName, ifaces, hierarchy, onceBefore) ==
    LET constantsLibraryName == makeJavaLibraryName(packageFQName) \o "-constants"
        genConstantsName == constantsLibraryName \o "_gen_java"
    IN  <<generateAndroidBpGenSection(packageFQName, genConstantsName, "java-constants",
              hierarchy, ConstantsOut(packageFQName, ifaces, onceBefore)),
          [rule |-> "java_library",
           name |-> constantsLibraryName,
           defaults |-> <<"hidl-java-module-defaults">>,
           srcs |-> <<":" \o genConstantsName>>]>>

\* mutant: the status of isTypesOnlyPackage is dropped
AdapterHelperDepsIgnoresError(pkgs, packageFQName) == [err |-> "OK", deps |-> <<>>]

\* mutant: the adapter helper of a types-only import is listed as well
AdapterHelperDepsKeepsTypesOnly(pkgs, packageFQName) ==
    LET others == SelectSeq(pkgs, LAMBDA q : q # packageFQName) IN
    [err |-> IF \E i \in 1..Len(others) : isTypesOnlyPackage(others[i]).err # "OK"
             THEN "IO_ERROR" ELSE "OK",
     deps |-> [i \in 1..Len(others) |-> makeLibraryName(others[i]) \o "-adapter-helper"]]

\* lines 775-797: the lambda of the adapter helper; it stops at the first
\* imported package whose isTypesOnlyPackage fails
RECURSIVE AdapterHelperDeps(_, _)
AdapterHelperDeps(pkgs, packageFQName) ==
    IF pkgs = <<>> THEN [err |-> "OK", deps |-> <<>>]
    ELSE IF Head(pkgs) = packageFQName THEN AdapterHelperDeps(Tail(pkgs), packageFQName)
    ELSE LET t == isTypesOnlyPackage(Head(pkgs)) IN
         IF t.err # "OK" THEN [err |-> t.err, deps |-> <<>>]
         ELSE LET rest == AdapterHelperDeps(Tail(pkgs), packageFQName) IN
              [err |-> rest.err,
               deps |-> (IF t.result THEN <<>>
                         ELSE <<makeLibraryName(Head(pkgs)) \o "-adapter-helper">>)
                        \o rest.deps]

\* lines 746-750, 761-765
AdapterOut(fq, suffix) ==
    IF name(fq) # "types" THEN <<GenOutputPath(fq) \o getInterfaceAdapterName(fq) \o suffix>>
    ELSE <<>>

\* lines 719-832: the status returned and the rules written before the return
generateAndroidBpAdapterLibsForPackage(packageFQName, ifaces, hierarchy) ==
    LET adapterName == makeLibraryName(packageFQName) \o "-adapter"
        genAdapterName == adapterName \o "_genc++"
        adapterHelperName == adapterName \o "-helper"
        genAdapterSourcesName == adapterHelperName \o "_genc++"
        genAdapterHeadersName == adapterHelperName \o "_genc++_headers"
        adapterPackages == hierarchy \cup {packageFQName}
        helper == AdapterHelperDeps(SetOrder(hierarchy), packageFQName)
        first ==
            <<generateAndroidBpGenSection(packageFQName, genAdapterSourcesName,
                  "c++-adapter-sources", adapterPackages,
                  Flatten([i \in 1..Len(ifaces) |-> AdapterOut(ifaces[i], ".cpp")])),
              generateAndroidBpGenSection(packageFQName, genAdapterHeadersName,
                  "c++-adapter-headers", adapterPackages,
                  Flatten([i \in 1..Len(ifaces) |-> AdapterOut(ifaces[i], ".h")])),
              generateAndroidBpCppLibSection("VENDOR_AVAILABLE", packageFQName,
                  adapterHelperName, genAdapterSourcesName, genAdapterHeadersName,
                  <<"libhidladapter">> \o generateAndroidBpDependencyList(adapterPackages)
                  \o helper.deps)>>
        rest ==
            <<[rule |-> "genrule",
               name |-> genAdapterName,
               tools |-> <<hidl_gen>>,
               language |-> "c++-adapter-main",
               roots |-> generatePackagePathsSection(packageFQName, adapterPackages),
               fqname |-> string(packageFQName),
               srcs |-> <<>>,
               out |-> <<"main.cpp">>],
              [rule |-> "cc_test",
               name |-> adapterName,
               defaults |-> <<"hidl-module-defaults">>,
               shared_libs |-> <<"libhidladapter", "libhidlbase", "libhidltransport",
                                 "libutils">>
                               \o generateAndroidBpDependencyList(adapterPackages)
                               \o <<adapterHelperName>>,
               generated_sources |-> <<genAdapterName>>]>>
    IN  IF helper.err # "OK" THEN [err |-> helper.err, rules |-> first]
        ELSE [err |-> "OK", rules |-> first \o rest]

(***************************************************************************)
(* The formats table and the validators (main.cpp 309-328, 1004-1036,      *)
(* 1166-1295).                                                             *)
(***************************************************************************)
Handler(key, mode, validate, generate) ==
    [mKey |-> key, mOutputMode |-> mode, validate |-> validate, generate |-> generate]

formats ==
    <<Handler("check", "NOT_NEEDED", "validateForSource", "generationFunctionForFileOrPackage"),
      Handler("c++", "NEEDS_DIR", "validateForSource", "generationFunctionForFileOrPackage"),
      Handler("c++-headers", "NEEDS_DIR", "validateForSource", "generationFunctionForFileOrPackage"),
      Handler("c++-sources", "NEEDS_DIR", "validateForSource", "generationFunctionForFileOrPackage"),
      Handler("export-header", "NEEDS_FILE", "validateIsPackage", "generateExportHeaderForPackage"),
      Handler("c++-impl", "NEEDS_DIR", "validateForSource", "generationFunctionForFileOrPackage"),
      Handler("c++-impl-headers", "NEEDS_DIR", "validateForSource", "generationFunctionForFileOrPackage"),
      Handler("c++-impl-sources", "NEEDS_DIR", "validateForSource", "generationFunctionForFileOrPackage"),
      Handler("c++-adapter", "NEEDS_DIR", "validateForSource", "generationFunctionForFileOrPackage"),
      Handler("c++-adapter-headers", "NEEDS_DIR", "validateForSource", "generationFunctionForFileOrPackage"),
      Handler("c++-adapter-sources", "NEEDS_DIR", "validateForSource", "generationFunctionForFileOrPackage"),
      Handler("c++-adapter-main", "NEEDS_DIR", "validateIsPackage", "generateAdapterMainSource"),
      Handler("java", "NEEDS_DIR", "validateForSource", "generationFunctionForFileOrPackage"),
      Handler("java-constants", "NEEDS_DIR", "validateIsPackage", "generateExportHeaderForPackage"),
      Handler("vts", "NEEDS_DIR", "validateForSource", "generationFunctionForFileOrPackage"),
      Handler("makefile", "NEEDS_SRC", "reject", "nullptr"),
      Handler("androidbp", "NEEDS_SRC", "validateIsPackage", "generateAndroidBpForPackage"),
      Handler("androidbp-impl", "NEEDS_DIR", "validateIsPackage", "generateAndroidBpImplForPackage"),
      Handler("hash", "NOT_NEEDED", "validateForSource", "generateHashOutput")>>

validateIsPackage(fq) ==
    IF fq.package = <<>> THEN FALSE
    ELSE IF fq.version = <<>> THEN FALSE
    ELSE IF fq.name # <<>> THEN FALSE
    ELSE TRUE

\* mutant: the extended syntax types.Name is accepted for every language
validateForSourceAnyLanguage(fq, language) ==
    IF fq.package = <<>> THEN FALSE
    ELSE IF fq.version = <<>> THEN FALSE
    ELSE IF fq.name # <<>>
    THEN IF Len(fq.name) = 1 THEN TRUE
         ELSE IF fq.name[1] # "types" THEN FALSE
         ELSE TRUE
    ELSE TRUE

\* name.find('.') is npos when the name is one component; name.find("types.")
\* is 0 when a first component types is followed by more
validateForSource(fq, language) ==
    IF fq.package = <<>> THEN FALSE
    ELSE IF fq.version = <<>> THEN FALSE
    ELSE IF fq.name # <<>>
    THEN IF Len(fq.name) = 1 THEN TRUE
         ELSE IF language # "java" \/ fq.name[1] # "types" THEN FALSE
         ELSE TRUE
    ELSE TRUE

\* mutant: every validator accepts every valid fqname
ValidateAcceptsAll(handler, fq) == TRUE

\* outputFormat->validate(fqName, outputFormat->name())
Validate(handler, fq) ==
    CASE handler.validate = "validateForSource" -> validateForSource(fq, handler.mKey)
      [] handler.validate = "validateIsPackage" -> validateIsPackage(fq)
      [] handler.validate = "reject" -> FALSE

\* mutant: a token that is no key selects the first handler
FindFormatDefaultsToFirst(optarg) ==
    LET hits == {i \in 1..Len(formats) : formats[i].mKey = optarg} IN
    IF hits = {} THEN 1 ELSE CHOOSE i \in hits : \A j \in hits : i <= j

\* lines 1388-1393: the first entry whose key is the token, 0 when there is none
FindFormat(optarg) ==
    LET hits == {i \in 1..Len(formats) : formats[i].mKey = optarg} IN
    IF hits = {} THEN 0 ELSE CHOOSE i \in hits : \A j \in hits : i <= j

(***************************************************************************)
(* generateAndroidBpForPackage (main.cpp 834-927).                         *)
(***************************************************************************)
Logged(op, i, fq, path) == [op |-> op, i |-> i, fqName |-> fq, outputPath |-> path]

\* the file the formatter of Android.bp opens
AndroidBpFile(packageFQName) == string(packageFQName) \o "/Android.bp"

RECURSIVE UnionOfHierarchies(_)
UnionOfHierarchies(parsed) ==
    IF parsed = <<>> THEN {}
    ELSE Head(parsed).importedPackagesHierarchy \cup UnionOfHierarchies(Tail(parsed))

\* lines 884-924: everything written to Android.bp, the status of the adapter
\* section, and the static flag afterwards
AndroidBpContent(packageFQName, ifaces, hierarchy, exported, types, typesOnly, javaCompatible, forTest, onceBefore) ==
    LET needsJava == packageNeedsJavaCode(ifaces, types)
        head ==
            <<Comment("This file is autogenerated by hidl-gen. Do not edit manually."),
              [rule |-> "filegroup",
               name |-> makeHalFilegroupName(packageFQName),
               srcs |-> [i \in 1..Len(ifaces) |-> name(ifaces[i]) \o ".hal"]]>>
        java ==
            IF ~needsJava
            THEN <<Comment("This package has nothing to generate Java code.")>>
            ELSE (IF javaCompatible
                  THEN generateAndroidBpJavaLibsForPackage(packageFQName, ifaces, hierarchy, types)
                  ELSE <<Comment("This package is not java compatible. Not creating java target.")>>)
                 \o (IF exported # <<>>
                     THEN generateAndroidBpJavaExportsForPackage(packageFQName, ifaces,
                              hierarchy, onceBefore)
                     ELSE <<Comment("This package does not export any types. Not creating java constants export.")>>)
        adapter ==
            IF ~typesOnly
            THEN generateAndroidBpAdapterLibsForPackage(packageFQName, ifaces, hierarchy)
            ELSE [err |-> "OK",
                  rules |-> <<Comment("This package has no interfaces. Not creating versioning adapter.")>>]
    IN  [err |-> adapter.err,
         rules |-> head
                   \o generateAndroidBpDefinitionLibsForPackage(packageFQName, ifaces,
                          hierarchy, forTest)
                   \o java \o adapter.rules,
         once |-> IF needsJava /\ exported # <<>> THEN OnceAfter(ifaces, onceBefore)
                  ELSE onceBefore]

\* lines 837-838: the CHECK on the package name
IsPackageName(fq) == isValid(fq) /\ ~isFullyQualified(fq) /\ fq.name = <<>>

\* lines 292, 636: CHECK(typesAST != nullptr), reached by packageNeedsJavaCode
\* for a package of a types file alone and by the lambda of the Java genrule
\* at the types file of a package that gets a Java library
TypesASTChecksHold(ifaces, types, javaCompatible) ==
    types.null =>
        ~\E i \in 1..Len(ifaces) :
            /\ name(ifaces[i]) = "types"
            /\ (Len(ifaces) = 1 \/ javaCompatible)

\* lines 837-874: the analysis, up to the call of isPackageJavaCompatible
BpAnalyze ==
    /\ pc = "generate"
    /\ outputFormat = FindFormat("androidbp")
    /\ LET r == appendPackageInterfacesToVector(fqName)
           parsed == [i \in 1..Len(r.v) |-> parse(r.v[i])]
           failed == {i \in 1..Len(r.v) : parsed[i].null}
           \* the interfaces parsed before the loop ends or returns
           n == IF failed = {} THEN Len(r.v)
                ELSE (CHOOSE i \in failed : \A j \in failed : i <= j) - 1
           done == SubSeq(parsed, 1, n)
           typesAt == {i \in 1..n : name(r.v[i]) = "types"}
           t == isTypesOnlyPackage(fqName)
       IN  IF ~IsPackageName(fqName)
           THEN /\ pc' = "abort"
                /\ UNCHANGED <<packageInterfaces, importedPackagesHierarchy, exportedTypes,
                               typesAST, isTypesOnly, genStatus, parses>>
           ELSE IF r.err # "OK"
           THEN /\ genStatus' = r.err
                /\ pc' = "gen_return"
                /\ UNCHANGED <<packageInterfaces, importedPackagesHierarchy, exportedTypes,
                               typesAST, isTypesOnly, parses>>
           ELSE /\ packageInterfaces' = r.v
                /\ parses' = parses \o [i \in 1..(IF failed = {} THEN n ELSE n + 1) |->
                                           Parsed(r.v[i], "DEFAULT")]
                /\ importedPackagesHierarchy' = UnionOfHierarchies(done)
                /\ exportedTypes' = Flatten([i \in 1..n |-> done[i].exportedTypes])
                /\ typesAST' = IF typesAt = {} THEN NullAST
                               ELSE done[CHOOSE i \in typesAt : TRUE]
                /\ IF failed # {}
                   THEN genStatus' = "UNKNOWN_ERROR" /\ pc' = "gen_return"
                                                    /\ UNCHANGED isTypesOnly
                   ELSE IF t.err # "OK"
                   THEN genStatus' = t.err /\ pc' = "gen_return" /\ UNCHANGED isTypesOnly
                   ELSE isTypesOnly' = {t.result} /\ pc' = "jc_call" /\ UNCHANGED genStatus
    /\ todo' = <<>>
    /\ seen' = {}
    /\ jcFqName' = InvalidFQName
    /\ compatible' = {}
    /\ jcStatus' = "none"
    /\ UNCHANGED <<envVars, returned, stdout, mainVars, isJavaCompatible, out, files, once,
                   log>>

\* mutant: the formatter is opened before the status of
\* isPackageJavaCompatible is looked at
BpEmitOpensFirst ==
    /\ pc = "jc_return"
    /\ outputFormat = FindFormat("androidbp")
    /\ pc' = "gen_return"
    /\ log' = Append(log, Logged("getFormatter", argi, fqName, outputPath))
    /\ IF jcStatus # "OK"
       THEN /\ genStatus' = jcStatus
            /\ files' = (AndroidBpFile(fqName) :> <<>>) @@ files
            /\ UNCHANGED <<isJavaCompatible, out, once>>
       ELSE /\ isJavaCompatible' = compatible
            /\ LET c == AndroidBpContent(fqName, packageInterfaces,
                             importedPackagesHierarchy, exportedTypes, typesAST,
                             TRUE \in isTypesOnly, TRUE \in compatible, generateForTest, once)
               IN  /\ out' = c.rules
                   /\ files' = (AndroidBpFile(fqName) :> c.rules) @@ files
                   /\ once' = c.once
                   /\ genStatus' = c.err
    /\ UNCHANGED <<envVars, parses, returned, stdout, mainVars, jcVars, packageInterfaces,
                   importedPackagesHierarchy, exportedTypes, typesAST, isTypesOnly>>

\* lines 874-926: after isPackageJavaCompatible returned; valid is whether
\* the formatter could open Android.bp
BpEmit ==
    /\ pc = "jc_return"
    /\ outputFormat = FindFormat("androidbp")
    /\ IF jcStatus # "OK"
       THEN /\ genStatus' = jcStatus
            /\ pc' = "gen_return"
            /\ UNCHANGED <<isJavaCompatible, out, files, once, log>>
       ELSE /\ isJavaCompatible' = compatible
            /\ \E valid \in BOOLEAN :
                 /\ log' = Append(log, Logged("getFormatter", argi, fqName, outputPath))
                 /\ IF ~valid
                    THEN /\ genStatus' = "UNKNOWN_ERROR"
                         /\ pc' = "gen_return"
                         /\ UNCHANGED <<out, files, once>>
                    ELSE IF ~TypesASTChecksHold(packageInterfaces, typesAST, TRUE \in compatible)
                    THEN /\ pc' = "abort"
                         /\ files' = (AndroidBpFile(fqName) :> <<>>) @@ files
                         /\ UNCHANGED <<genStatus, out, once>>
                    ELSE LET c == AndroidBpContent(fqName, packageInterfaces,
                                      importedPackagesHierarchy, exportedTypes, typesAST,
                                      TRUE \in isTypesOnly, TRUE \in compatible, generateForTest,
                                      once)
                         IN  /\ out' = c.rules
                             /\ files' = (AndroidBpFile(fqName) :> c.rules) @@ files
                             /\ once' = c.once
                             /\ genStatus' = c.err
                             /\ pc' = "gen_return"
    /\ UNCHANGED <<envVars, parses, returned, stdout, mainVars, jcVars, packageInterfaces,
                   importedPackagesHierarchy, exportedTypes, typesAST, isTypesOnly>>

(***************************************************************************)
(* main (main.cpp 1321-1503).                                              *)
(***************************************************************************)
\* Coordinator::setRootPath
setRootPath(rootPath) == rootPath

\* val.find_first_of(':'), 0 for npos; val is the option cut at '.' and ':'
FindFirstColon(val) ==
    LET hits == {i \in 1..Len(val) : val[i] = ":"} IN
    IF hits = {} THEN 0 ELSE CHOOSE i \in hits : \A j \in hits : i <= j

\* lines 1367-1368: val.substr(0, index) and val.substr(index + 1)
RootOfOption(val, index) ==
    Root(SelectSeq(SubSeq(val, 1, index - 1), LAMBDA c : c # "."),
         Join(SubSeq(val, index + 1, Len(val)), ""))

\* Coordinator::addPackagePath: a prefix can be registered once
addPackagePath(roots, r) ==
    IF \E q \in roots : q.root = r.root THEN [err |-> "BAD_VALUE", roots |-> roots]
    ELSE [err |-> "OK", roots |-> roots \cup {r}]

\* the values of the options on the command lines of the model
RootPathArgs == {<<>>, <<"t">>, <<"t", "/">>}
OutputPathArgs == {<<>>, <<"o">>, <<"o", "/">>}
PackageRootArgs ==
    {<<"vendor", ".", "acme">>,
     <<"vendor", ".", "acme", ":", "vendor/acme/interfaces">>}
LanguageArgs == {formats[i].mKey : i \in 1..Len(formats)} \cup {"python"}
Options ==
    [opt : {"p"}, optarg : RootPathArgs] \cup [opt : {"o"}, optarg : OutputPathArgs]
        \cup [opt : {"r"}, optarg : PackageRootArgs] \cup [opt : {"L"}, optarg : LanguageArgs]
        \cup [opt : {"v", "t", "h", "end"}, optarg : {<<>>}]

\* lines 1338-1417: one turn of the getopt loop; "end" is getopt returning -1
Getopt ==
    /\ pc = "getopt"
    /\ \E o \in Options :
         LET index == FindFirstColon(o.optarg)
             added == addPackagePath(mPackageRoots, RootOfOption(o.optarg, index))
             found == FindFormat(o.optarg)
             exits ==
                CASE o.opt = "r" -> index = 0 \/ added.err # "OK"
                  [] o.opt = "L" -> outputFormat # 0 \/ found = 0
                  [] o.opt = "h" -> TRUE
                  [] OTHER -> FALSE
         IN  /\ pc' = IF exits THEN "exit" ELSE IF o.opt = "end" THEN "parsed" ELSE "getopt"
             /\ exitStatus' = IF exits THEN "1" ELSE exitStatus
             /\ mRootPath' = IF o.opt = "p" THEN setRootPath(o.optarg) ELSE mRootPath
             /\ mVerbose' = IF o.opt = "v" THEN TRUE ELSE mVerbose
             /\ outputPath' = IF o.opt = "o" THEN o.optarg ELSE outputPath
             /\ mPackageRoots' = IF o.opt = "r" /\ ~exits THEN added.roots ELSE mPackageRoots
             /\ langArgs' = IF o.opt = "L" THEN Append(langArgs, o.optarg) ELSE langArgs
             /\ outputFormat' = IF o.opt = "L" /\ outputFormat = 0 THEN found
                                ELSE outputFormat
             /\ generateForTest' = IF o.opt = "t" THEN TRUE ELSE generateForTest
    /\ UNCHANGED <<envVars, parses, returned, stdout, argv, argi, fqName, log, jcVars,
                   bpVars>>

\* outputPath.back(); on an empty string the byte read is not defined
back(path, byte) == IF path = <<>> THEN byte ELSE Last(path)

\* the bytes a read before the start of an empty string may yield
StrayBytes == {"/", "0"}

\* lines 1441-1472: the switch on mOutputMode; usage marks the exit at 1446-1447
OutputModeSwitch(mode, path, rootPath, byte) ==
    CASE mode \in {"NEEDS_DIR", "NEEDS_FILE"} ->
            IF path = <<>> THEN [usage |-> TRUE, outputPath |-> path]
            ELSE IF mode = "NEEDS_DIR" /\ back(path, byte) # "/"
            THEN [usage |-> FALSE, outputPath |-> Append(path, "/")]
            ELSE [usage |-> FALSE, outputPath |-> path]
      [] mode = "NEEDS_SRC" ->
            LET p == IF path = <<>> THEN rootPath ELSE path IN
            IF back(p, byte) # "/" THEN [usage |-> FALSE, outputPath |-> Append(p, "/")]
            ELSE [usage |-> FALSE, outputPath |-> p]
      [] OTHER -> [usage |-> FALSE, outputPath |-> <<>>]

\* the fqnames of the command lines of the model
PositionalArgs ==
    {InvalidFQName, NfcPkg, MemoryPkg, Iface(NfcPkg, "IFoo"),
     FQ(<<"android", "hardware", "nfc">>, <<"1", "0">>, <<"types", "Alpha">>),
     FQ(<<"android", "hardware", "nfc">>, <<"1", "0">>, <<"IFoo", "Mode">>),
     FQ(<<>>, <<>>, <<"IFoo">>)}

RECURSIVE SeqsUpTo(_, _)
SeqsUpTo(S, n) ==
    IF n = 0 THEN {<<>>}
    ELSE LET shorter == SeqsUpTo(S, n - 1) IN
         shorter \cup {Append(q, x) : q \in {r \in shorter : Len(r) = n - 1}, x \in S}

\* lines 1419-1477: from the end of the options to the fqname loop
PostOpts ==
    /\ pc = "parsed"
    /\ \E args \in SeqsUpTo(PositionalArgs, MaxArgs), byte \in StrayBytes :
         IF outputFormat = 0
         THEN /\ pc' = "exit" /\ exitStatus' = "1"
              /\ UNCHANGED <<argv, outputPath, mPackageRoots>>
         ELSE IF generateForTest /\ formats[outputFormat].mKey # "androidbp"
         THEN /\ pc' = "exit" /\ exitStatus' = "1"
              /\ UNCHANGED <<argv, outputPath, mPackageRoots>>
         ELSE IF Len(args) = 0
         THEN /\ pc' = "exit" /\ exitStatus' = "1"
              /\ argv' = args
              /\ UNCHANGED <<outputPath, mPackageRoots>>
         ELSE LET n == OutputModeSwitch(formats[outputFormat].mOutputMode, outputPath,
                                        mRootPath, byte)
              IN  /\ argv' = args
                  /\ outputPath' = n.outputPath
                  /\ IF n.usage
                     THEN pc' = "exit" /\ exitStatus' = "1" /\ UNCHANGED mPackageRoots
                     ELSE /\ pc' = "loop"
                          /\ mPackageRoots' = addDefaultPackagePaths(mPackageRoots)
                          /\ UNCHANGED exitStatus
    /\ argi' = 0
    /\ UNCHANGED <<envVars, parses, returned, stdout, outputFormat, mRootPath, mVerbose,
                   langArgs, generateForTest, fqName, log, jcVars, bpVars>>

\* mutant: an fqname that is not valid is skipped and the loop goes on
LoopNextSkipsInvalid ==
    /\ pc = "loop"
    /\ IF argi >= Len(argv)
       THEN /\ pc' = "exit" /\ exitStatus' = "0"
            /\ UNCHANGED <<fqName, log, argi>>
       ELSE LET fq == argv[argi + 1]
                h == formats[outputFormat]
                validated == Logged("validate", argi, fq, <<>>)
            IN  /\ fqName' = fq
                /\ IF ~isValid(fq)
                   THEN pc' = "loop" /\ argi' = argi + 1 /\ UNCHANGED <<log, exitStatus>>
                   ELSE IF ~Validate(h, fq)
                   THEN /\ pc' = "exit" /\ exitStatus' = "1"
                        /\ log' = Append(log, validated)
                        /\ UNCHANGED argi
                   ELSE /\ pc' = "generate"
                        /\ log' = log \o <<validated, Logged("generate", argi, fq, outputPath)>>
                        /\ UNCHANGED <<exitStatus, argi>>
    /\ packageInterfaces' = <<>>
    /\ importedPackagesHierarchy' = {}
    /\ exportedTypes' = <<>>
    /\ typesAST' = NullAST
    /\ isTypesOnly' = {}
    /\ isJavaCompatible' = {}
    /\ genStatus' = "none"
    /\ out' = <<>>
    /\ UNCHANGED <<envVars, parses, returned, stdout, outputFormat, outputPath, mRootPath,
                   mVerbose, mPackageRoots, langArgs, generateForTest, argv, jcVars,
                   files, once>>

\* lines 1479-1495: the loop test, FQName fqName(argv[i]), the validator and
\* the call of the generator
LoopNext ==
    /\ pc = "loop"
    /\ IF argi >= Len(argv)
       THEN /\ pc' = "exit" /\ exitStatus' = "0"
            /\ UNCHANGED <<fqName, log>>
       ELSE LET fq == argv[argi + 1]
                h == formats[outputFormat]
                validated == Logged("validate", argi, fq, <<>>)
            IN  /\ fqName' = fq
                /\ IF ~isValid(fq)
                   THEN pc' = "exit" /\ exitStatus' = "1" /\ UNCHANGED log
                   ELSE IF ~Validate(h, fq)
                   THEN /\ pc' = "exit" /\ exitStatus' = "1"
                        /\ log' = Append(log, validated)
                   ELSE /\ pc' = "generate"
                        /\ log' = log \o <<validated, Logged("generate", argi, fq, outputPath)>>
                        /\ UNCHANGED exitStatus
    /\ packageInterfaces' = <<>>
    /\ importedPackagesHierarchy' = {}
    /\ exportedTypes' = <<>>
    /\ typesAST' = NullAST
    /\ isTypesOnly' = {}
    /\ isJavaCompatible' = {}
    /\ genStatus' = "none"
    /\ out' = <<>>
    /\ UNCHANGED <<envVars, parses, returned, stdout, outputFormat, outputPath, mRootPath,
                   mVerbose, mPackageRoots, langArgs, generateForTest, argv, argi, jcVars,
                   files, once>>

\* the parse loop the generators share: the ASTs of the interfaces parsed
\* before the loop ends or returns, whether a parse failed, and the calls made
ParseLoop(v, enforcement) ==
    LET parsed == [i \in 1..Len(v) |-> parseEnforced(v[i], enforcement)]
        failed == {i \in 1..Len(v) : parsed[i].null}
        n == IF failed = {} THEN Len(v)
             ELSE (CHOOSE i \in failed : \A j \in failed : i <= j) - 1
    IN  [n |-> n,
         done |-> SubSeq(parsed, 1, n),
         failed |-> failed # {},
         calls |-> [i \in 1..(IF failed = {} THEN n ELSE n + 1) |-> Parsed(v[i], enforcement)]]

\* the handlers whose generator is generationFunctionForFileOrPackage
SourceLanguages ==
    {formats[i].mKey : i \in {j \in 1..Len(formats) :
                                formats[j].generate = "generationFunctionForFileOrPackage"}}

\* lines 70-79: the file generateSourcesForFile parses
FileToParse(fq) ==
    IF Len(fq.name) > 1 /\ fq.name[1] = "types" THEN getTypesForPackage(fq) ELSE fq

\* lines 70-73: limitToType
LimitToType(fq) ==
    IF Len(fq.name) > 1 /\ fq.name[1] = "types" THEN Join(Tail(fq.name), ".") ELSE ""

\* lines 65, 70-71: the CHECKs of generateSourcesForFile
FileChecksHold(fq, lang) ==
    /\ isFullyQualified(fq)
    /\ (Len(fq.name) > 1 /\ fq.name[1] = "types") => lang = "java"

\* lines 135-137, 145-147, 164-176: the CHECKs on the way of a fqname through
\* generationFunctionForFileOrPackage; v is the enumeration of the package
SourcesChecksHold(fq, v, lang) ==
    IF isFullyQualified(fq) THEN FileChecksHold(fq, lang)
    ELSE /\ IsPackageName(fq)
         /\ \A i \in 1..Len(v) : FileChecksHold(v[i], lang)

\* lines 59-127, 129-158, 160-178: generateSourcesForFile for an interface,
\* generateSourcesForPackage for a package; bad is the file whose emitter
\* (ast->generateCpp and the like) reports an error, 0 when none does
GenerateSources ==
    /\ pc = "generate"
    /\ formats[outputFormat].generate = "generationFunctionForFileOrPackage"
    /\ LET lang == formats[outputFormat].mKey
           r == IF isFullyQualified(fqName) THEN [err |-> "OK", v |-> <<fqName>>]
                ELSE appendPackageInterfacesToVector(fqName)
           l == ParseLoop([i \in 1..Len(r.v) |-> FileToParse(r.v[i])], "DEFAULT")
       IN  IF ~SourcesChecksHold(fqName, r.v, lang)
           THEN pc' = "abort" /\ UNCHANGED <<genStatus, parses, out>>
           ELSE IF r.err # "OK"
           THEN pc' = "gen_return" /\ genStatus' = r.err /\ UNCHANGED <<parses, out>>
           ELSE \E bad \in 0..Len(r.v) :
                  LET emitFailed == lang # "check" /\ bad \in 1..l.n
                      emitted == IF emitFailed THEN bad - 1 ELSE l.n
                  IN  /\ parses' = parses \o (IF emitFailed THEN SubSeq(l.calls, 1, bad)
                                              ELSE l.calls)
                      /\ out' = IF lang = "check" THEN <<>>
                                ELSE [i \in 1..emitted |->
                                        [rule |-> "source", language |-> lang,
                                         fqName |-> FileToParse(r.v[i]),
                                         outputDir |-> outputPath,
                                         limitToType |-> LimitToType(r.v[i])]]
                      /\ genStatus' = IF emitFailed \/ l.failed THEN "UNKNOWN_ERROR" ELSE "OK"
                      /\ pc' = "gen_return"
    /\ UNCHANGED <<envVars, returned, stdout, mainVars, jcVars, packageInterfaces,
                   importedPackagesHierarchy, exportedTypes, typesAST, isTypesOnly,
                   isJavaCompatible, files, once, log>>

\* lines 1078-1083: the file the formatter opens
ExportFile(forJava, packageFQName, path) ==
    IF forJava THEN Join(path, "") \o GenSanitizedPath(packageFQName) \o "Constants.java"
    ELSE Join(path, "")

\* lines 1087-1121: what is written to the file
ExportContent(forJava, packageFQName, exported) ==
    <<Comment("This file is autogenerated by hidl-gen. Do not edit manually."),
      Comment("Source: " \o string(packageFQName)),
      Comment("Root: " \o getPackageRootOption(packageFQName)),
      [rule |-> IF forJava THEN "class Constants" ELSE "extern C",
       types |-> exported]>>

\* mutant: the file is opened before the list of exported types is looked at
ExportOpensWhenEmpty(exported) == TRUE

\* lines 1072-1074: the early return on an empty list of exported types
ExportOpens(exported) == exported # <<>>

\* lines 1038-1125: the generator of export-header and of java-constants;
\* valid is whether the formatter could open the file
GenerateExportHeader ==
    /\ pc = "generate"
    /\ formats[outputFormat].generate = "generateExportHeaderForPackage"
    /\ LET forJava == formats[outputFormat].mKey = "java-constants"
           r == appendPackageInterfacesToVector(fqName)
           l == ParseLoop(r.v, "DEFAULT")
           exported == Flatten([i \in 1..l.n |-> l.done[i].exportedTypes])
       IN  IF ~(isValid(fqName) /\ fqName.package # <<>> /\ fqName.version # <<>>
                  /\ fqName.name = <<>>)
           THEN /\ pc' = "abort"
                /\ UNCHANGED <<genStatus, parses, exportedTypes, out, files, log>>
           ELSE /\ pc' = "gen_return"
                /\ IF r.err # "OK"
                   THEN genStatus' = r.err
                        /\ UNCHANGED <<parses, exportedTypes, out, files, log>>
                   ELSE /\ parses' = parses \o l.calls
                        /\ exportedTypes' = exported
                        /\ IF l.failed
                           THEN genStatus' = "UNKNOWN_ERROR" /\ UNCHANGED <<out, files, log>>
                           ELSE IF ~ExportOpens(exported)
                           THEN genStatus' = "OK" /\ UNCHANGED <<out, files, log>>
                           ELSE \E valid \in BOOLEAN :
                                  /\ log' = Append(log, Logged("getFormatter", argi, fqName,
                                                               outputPath))
                                  /\ IF ~valid
                                     THEN genStatus' = "UNKNOWN_ERROR"
                                          /\ UNCHANGED <<out, files>>
                                     ELSE LET c == ExportContent(forJava, fqName, exported)
                                          IN  /\ out' = c
                                              /\ files' = (ExportFile(forJava, fqName,
                                                               outputPath) :> c) @@ files
                                              /\ genStatus' = "OK"
    /\ UNCHANGED <<envVars, returned, stdout, mainVars, jcVars, packageInterfaces,
                   importedPackagesHierarchy, typesAST, isTypesOnly, isJavaCompatible, once>>

\* lines 502-531: what is written to main.cpp
AdapterMainContent(packageFQName, ifaces) ==
    LET adapters == SelectSeq(ifaces, LAMBDA i : name(i) # "types") IN
    <<[rule |-> "include", header |-> "hidladapter/HidlBinderAdapter.h"]>>
    \o [i \in 1..Len(adapters) |->
          [rule |-> "include", header |-> AdapterOut(adapters[i], ".h")[1]]]
    \o <<[rule |-> "adapterMain",
          adapters |-> [i \in 1..Len(adapters) |-> getInterfaceAdapterName(adapters[i])],
          package |-> string(packageFQName)]>>

\* lines 486-533: generateAdapterMainSource; the formatter opens main.cpp
\* before the package is enumerated
GenerateAdapterMain ==
    /\ pc = "generate"
    /\ formats[outputFormat].generate = "generateAdapterMainSource"
    /\ pc' = "gen_return"
    /\ log' = Append(log, Logged("getFormatter", argi, fqName, outputPath))
    /\ \E valid \in BOOLEAN :
         LET r == appendPackageInterfacesToVector(fqName)
             file == Join(outputPath, "") \o "main.cpp"
         IN  IF ~valid
             THEN genStatus' = "UNKNOWN_ERROR" /\ UNCHANGED <<out, files>>
             ELSE IF r.err # "OK"
             THEN /\ genStatus' = r.err
                  /\ out' = <<>>
                  /\ files' = (file :> <<>>) @@ files
             ELSE LET c == AdapterMainContent(fqName, r.v) IN
                  /\ genStatus' = "OK"
                  /\ out' = c
                  /\ files' = (file :> c) @@ files
    /\ UNCHANGED <<envVars, parses, returned, stdout, mainVars, jcVars, packageInterfaces,
                   importedPackagesHierarchy, exportedTypes, typesAST, isTypesOnly,
                   isJavaCompatible, once>>

RECURSIVE UnionOfImportedPackages(_)
UnionOfImportedPackages(parsed) ==
    IF parsed = <<>> THEN {}
    ELSE Head(parsed).importedPackages \cup UnionOfImportedPackages(Tail(parsed))

\* lines 965-999: what is written to the Android.bp of the implementation
AndroidBpImplContent(packageFQName, ifaces, importedPackages) ==
    LET impls == SelectSeq(ifaces, LAMBDA i : name(i) # "types")
        deps == SelectSeq(SetOrder(importedPackages), LAMBDA q : ~isHidlTransportPackage(q))
    IN  <<[rule |-> "cc_library_shared",
           name |-> makeLibraryName(packageFQName) \o "-impl",
           relative_install_path |-> "hw",
           proprietary |-> TRUE,
           srcs |-> [i \in 1..Len(impls) |-> getInterfaceBaseName(impls[i]) \o ".cpp"],
           shared_libs |-> <<"libhidlbase", "libhidltransport", "libutils",
                             makeLibraryName(packageFQName)>>
                           \o [i \in 1..Len(deps) |-> makeLibraryName(deps[i])]]>>

\* lines 929-1002: generateAndroidBpImplForPackage
GenerateAndroidBpImpl ==
    /\ pc = "generate"
    /\ formats[outputFormat].generate = "generateAndroidBpImplForPackage"
    /\ pc' = "gen_return"
    /\ LET r == appendPackageInterfacesToVector(fqName)
           l == ParseLoop(r.v, "DEFAULT")
       IN  IF r.err # "OK"
           THEN genStatus' = r.err /\ UNCHANGED <<parses, out, files, log>>
           ELSE /\ parses' = parses \o l.calls
                /\ IF l.failed
                   THEN genStatus' = "UNKNOWN_ERROR" /\ UNCHANGED <<out, files, log>>
                   ELSE \E valid \in BOOLEAN :
                          /\ log' = Append(log, Logged("getFormatter", argi, fqName,
                                                       outputPath))
                          /\ IF ~valid
                             THEN genStatus' = "UNKNOWN_ERROR" /\ UNCHANGED <<out, files>>
                             ELSE LET c == AndroidBpImplContent(fqName, r.v,
                                               UnionOfImportedPackages(l.done))
                                  IN  /\ out' = c
                                      /\ files' = (Join(outputPath, "") \o "Android.bp" :> c)
                                                  @@ files
                                      /\ genStatus' = "OK"
    /\ UNCHANGED <<envVars, returned, stdout, mainVars, jcVars, packageInterfaces,
                   importedPackagesHierarchy, exportedTypes, typesAST, isTypesOnly,
                   isJavaCompatible, once>>

\* lines 1155-1157: the line printf writes for an interface
HashLine(fq) == [hex |-> getHash(fq), fqName |-> string(fq)]

\* mutant: the hash handler parses under the default enforcement
HashEnforcementDefault == "DEFAULT"

\* line 1146: the enforcement generateHashOutput passes to parse
HashEnforcement == "NO_HASH"

\* mutant: the lines are printed only after every interface has parsed
HashLinesAllOrNothing(v, l) ==
    IF l.failed THEN <<>> ELSE [i \in 1..l.n |-> HashLine(v[i])]

\* lines 1144-1158: one line per interface parsed before the loop ends or returns
HashLines(v, l) == [i \in 1..l.n |-> HashLine(v[i])]

\* lines 1127-1163: generateHashOutput
GenerateHash ==
    /\ pc = "generate"
    /\ formats[outputFormat].generate = "generateHashOutput"
    /\ pc' = "gen_return"
    /\ LET r == IF isFullyQualified(fqName) THEN [err |-> "OK", v |-> <<fqName>>]
                ELSE appendPackageInterfacesToVector(fqName)
           l == ParseLoop(r.v, HashEnforcement)
       IN  IF r.err # "OK"
           THEN genStatus' = r.err /\ UNCHANGED <<parses, stdout>>
           ELSE /\ parses' = parses \o l.calls
                /\ stdout' = stdout \o HashLines(r.v, l)
                /\ genStatus' = IF l.failed THEN "UNKNOWN_ERROR" ELSE "OK"
    /\ UNCHANGED <<envVars, returned, mainVars, jcVars, packageInterfaces,
                   importedPackagesHierarchy, exportedTypes, typesAST, isTypesOnly,
                   isJavaCompatible, out, files, once, log>>

\* mutant: the loop goes on after a generator failed
LoopAfterIgnoresError ==
    /\ pc = "gen_return"
    /\ pc' = "loop"
    /\ argi' = argi + 1
    /\ returned' = Append(returned, genStatus)
    /\ UNCHANGED <<envVars, parses, stdout, outputFormat, outputPath, mRootPath, mVerbose,
                   mPackageRoots, langArgs, generateForTest, argv, fqName, exitStatus, log,
                   jcVars, bpVars>>

\* lines 1497-1499 and ++i
LoopAfter ==
    /\ pc = "gen_return"
    /\ IF genStatus # "OK"
       THEN pc' = "exit" /\ exitStatus' = "1" /\ UNCHANGED argi
       ELSE pc' = "loop" /\ argi' = argi + 1 /\ UNCHANGED exitStatus
    /\ returned' = Append(returned, genStatus)
    /\ UNCHANGED <<envVars, parses, stdout, outputFormat, outputPath, mRootPath, mVerbose,
                   mPackageRoots,
                   langArgs, generateForTest, argv, fqName, log, jcVars, bpVars>>

(***************************************************************************)
(* The Java-compatibility traversal on its own: a call of                  *)
(* isPackageJavaCompatible(fqName) on a file system of three packages      *)
(* that may import each other, themselves included.                        *)
(***************************************************************************)
\* an interface file that imports the packages imp and exports nothing
PlainASTs(imps) == {NullAST} \cup {AST(jc, imp, imp, <<>>, <<>>) : jc \in BOOLEAN, imp \in imps}

\* the ASTs a file may have: none when the listed directory does not hold it
ASTChoices(d, n, full) == IF d.ok /\ n \in Range(d.names) THEN full ELSE {NullAST}

AtMostOne(S) == {{}} \cup {{p} : p \in S}

NoCall ==
    /\ todo = <<>>
    /\ seen = {}
    /\ jcFqName = InvalidFQName
    /\ compatible = {}
    /\ jcStatus = "none"

NoGeneration ==
    /\ packageInterfaces = <<>>
    /\ importedPackagesHierarchy = {}
    /\ exportedTypes = <<>>
    /\ typesAST = NullAST
    /\ isTypesOnly = {}
    /\ isJavaCompatible = {}
    /\ genStatus = "none"
    /\ out = <<>>

InitJava ==
    /\ \E dA \in {NoDir, Dir(<<>>), Dir(<<"IFoo">>), Dir(<<"types", "IFoo">>)},
          dB \in {NoDir, Dir(<<"IFoo">>), Dir(<<"types", "IFoo">>)},
          dC \in {NoDir, Dir(<<"IFoo">>)} :
       \E aT \in ASTChoices(dA, "types", PlainASTs({{}})),
          aI \in ASTChoices(dA, "IFoo", PlainASTs(AtMostOne({NfcPkg, MemoryPkg, VendorPkg}))),
          bT \in ASTChoices(dB, "types", PlainASTs({{}})),
          bI \in ASTChoices(dB, "IFoo", PlainASTs(AtMostOne({NfcPkg, MemoryPkg, VendorPkg}))),
          cI \in ASTChoices(dC, "IFoo", PlainASTs(AtMostOne({NfcPkg, MemoryPkg, VendorPkg}))) :
         /\ dirs = (NfcPkg :> dA) @@ (MemoryPkg :> dB) @@ (VendorPkg :> dC)
         /\ asts = (Iface(NfcPkg, "types") :> aT) @@ (Iface(NfcPkg, "IFoo") :> aI)
                    @@ (Iface(MemoryPkg, "types") :> bT) @@ (Iface(MemoryPkg, "IFoo") :> bI)
                    @@ (Iface(VendorPkg, "IFoo") :> cI)
    /\ pc = "jc_call"
    /\ fqName = NfcPkg
    /\ outputFormat = 0
    /\ outputPath = <<>>
    /\ mRootPath = <<>>
    /\ mVerbose = FALSE
    /\ mPackageRoots = DefaultPackageRoots \cup {VendorRoot}
    /\ langArgs = <<>>
    /\ generateForTest = FALSE
    /\ argv = <<>>
    /\ argi = 0
    /\ exitStatus = "running"
    /\ log = <<>>
    /\ NoCall
    /\ NoGeneration
    /\ files = <<>>
    /\ once = FALSE
    /\ manifest = <<>>
    /\ parses = <<>>
    /\ returned = <<>>
    /\ stdout = <<>>

NextJava == JcStart \/ JcIter \/ JcFinish

SpecJava == InitJava /\ [][NextJava]_vars

\* the call on trees whose three packages hold an IFoo each (the first also a
\* types.hal) and import at most one package each: any of the three, itself
\* included, so that the imports form chains and cycles; a file may fail to
\* parse and the third package may be missing
InitJavaCycles ==
    /\ \E dA \in {Dir(<<"IFoo">>), Dir(<<"types", "IFoo">>)}, dC \in {NoDir, Dir(<<"IFoo">>)} :
       \E aT \in ASTChoices(dA, "types", {AST(TRUE, {}, {}, <<>>, <<>>)}),
          aI \in PlainASTs(AtMostOne({NfcPkg, MemoryPkg, VendorPkg})) \ {NullAST},
          bI \in PlainASTs(AtMostOne({NfcPkg, MemoryPkg, VendorPkg})),
          cI \in ASTChoices(dC, "IFoo", {AST(TRUE, imp, imp, <<>>, <<>>) :
                                           imp \in AtMostOne({NfcPkg, MemoryPkg, VendorPkg})}) :
         /\ dirs = (NfcPkg :> dA) @@ (MemoryPkg :> Dir(<<"IFoo">>)) @@ (VendorPkg :> dC)
         /\ asts = (Iface(NfcPkg, "types") :> aT)
                    @@ (Iface(NfcPkg, "IFoo") :> aI)
                    @@ (Iface(MemoryPkg, "IFoo") :> bI)
                    @@ (Iface(VendorPkg, "IFoo") :> cI)
    /\ pc = "jc_call"
    /\ fqName = NfcPkg
    /\ outputFormat = 0
    /\ outputPath = <<>>
    /\ mRootPath = <<>>
    /\ mVerbose = FALSE
    /\ mPackageRoots = DefaultPackageRoots \cup {VendorRoot}
    /\ langArgs = <<>>
    /\ generateForTest = FALSE
    /\ argv = <<>>
    /\ argi = 0
    /\ exitStatus = "running"
    /\ log = <<>>
    /\ NoCall
    /\ NoGeneration
    /\ files = <<>>
    /\ once = FALSE
    /\ manifest = <<>>
    /\ parses = <<>>
    /\ returned = <<>>
    /\ stdout = <<>>

\* the call runs to its return: the process is not stopped inside the loop
SpecJavaFair == InitJavaCycles /\ [][NextJava]_vars /\ WF_vars(NextJava)

(***************************************************************************)
(* generateAndroidBpForPackage under the fqname loop, after the options:   *)
(* hidl-gen -Landroidbp [-t] fqname+, over a family of package trees.      *)
(***************************************************************************)
Named(n, typeDef) == [localName |-> n, isTypeDef |-> typeDef]

\* the named types at the top of a types.hal, in the order they are declared:
\* a struct Alpha, a typedef Beta
SubTypeLists ==
    {l \in SeqsUpTo({Named("Alpha", FALSE), Named("Beta", TRUE)}, MaxSubTypes) :
        \A i, j \in 1..Len(l) : l[i] = l[j] => i = j}

\* an exported type is an enum declared in the file, so a types.hal that
\* exports one declares a type that is not a typedef
TypesASTs ==
    {NullAST} \cup {t \in {AST(jc, {}, {}, exp, sub) :
                              jc \in BOOLEAN, exp \in {<<>>, <<"Status">>},
                              sub \in SubTypeLists} :
                       t.exportedTypes # <<>> => \E i \in 1..Len(t.subTypes) :
                                                    ~t.subTypes[i].isTypeDef}

InterfaceASTs(imps) ==
    {NullAST} \cup {AST(jc, imp, imp, exp, <<>>) :
                       jc \in BOOLEAN, imp \in imps, exp \in {<<>>, <<"Mode">>}}

NoLoop ==
    /\ argi = 0
    /\ parses = <<>>
    /\ returned = <<>>
    /\ stdout = <<>>
    /\ fqName = InvalidFQName
    /\ exitStatus = "running"
    /\ log = <<>>
    /\ files = <<>>
    /\ once = FALSE

InitBp ==
    /\ \E pair \in {<<NfcPkg, BasePkg>>, <<MemoryPkg, VendorPkg>>} :
       \E dX \in {NoDir, Dir(<<>>), Dir(<<"types">>), Dir(<<"IFoo">>), Dir(<<"types", "IFoo">>)},
          dY \in {NoDir, Dir(<<"types">>), Dir(<<"IFoo">>)} :
       \E xT \in ASTChoices(dX, "types", TypesASTs),
          xI \in ASTChoices(dX, "IFoo", InterfaceASTs({{}, {pair[1], pair[2]}})),
          yT \in ASTChoices(dY, "types", {NullAST, AST(TRUE, {}, {}, <<>>, <<>>)}),
          yI \in ASTChoices(dY, "IFoo", {NullAST, AST(TRUE, {}, {}, <<>>, <<>>)}) :
         /\ dirs = (pair[1] :> dX) @@ (pair[2] :> dY)
         /\ asts = (Iface(pair[1], "types") :> xT) @@ (Iface(pair[1], "IFoo") :> xI)
                    @@ (Iface(pair[2], "types") :> yT) @@ (Iface(pair[2], "IFoo") :> yI)
         /\ argv \in {a \in SeqsUpTo({pair[1], pair[2]}, MaxArgs) : Len(a) = MaxArgs}
    /\ manifest = <<>>
    /\ pc = "loop"
    /\ outputFormat = FindFormat("androidbp")
    /\ langArgs = <<"androidbp">>
    /\ generateForTest \in BOOLEAN
    /\ outputPath = <<"/">>
    /\ mRootPath = <<>>
    /\ mVerbose = FALSE
    /\ mPackageRoots = addDefaultPackagePaths({VendorRoot})
    /\ NoLoop
    /\ NoCall
    /\ NoGeneration

NextBp == LoopNext \/ BpAnalyze \/ JcStart \/ JcIter \/ JcFinish \/ BpEmit \/ LoopAfter

SpecBp == InitBp /\ [][NextBp]_vars

(***************************************************************************)
(* Every handler under the fqname loop, after the options: hidl-gen -L key *)
(* -o o fqname+, over package trees whose manifest may record a digest.    *)
(***************************************************************************)
\* the current.txt of the trees: no line, or one line whose digest is or is
\* not the digest of the file
Manifests ==
    {<<>>}
    \cup {(f :> StaleDigest) : f \in {Iface(NfcPkg, "IFoo"), Iface(MemoryPkg, "IFoo")}}
    \cup {(Iface(NfcPkg, "IFoo") :> getHash(Iface(NfcPkg, "IFoo")))}

InitGen ==
    /\ \E dX \in {NoDir, Dir(<<"types">>), Dir(<<"IFoo">>), Dir(<<"types", "IFoo">>)} :
       \E xT \in ASTChoices(dX, "types",
                             {NullAST} \cup {AST(TRUE, {}, {}, exp, <<Named("Alpha", FALSE)>>) :
                                               exp \in {<<>>, <<"Status">>}}),
          xI \in ASTChoices(dX, "IFoo", {NullAST,
                                         AST(TRUE, {MemoryPkg}, {MemoryPkg}, <<>>, <<>>)}) :
         /\ dirs = (NfcPkg :> dX) @@ (MemoryPkg :> Dir(<<"IFoo">>))
         /\ asts = (Iface(NfcPkg, "types") :> xT) @@ (Iface(NfcPkg, "IFoo") :> xI)
                    @@ (Iface(MemoryPkg, "IFoo") :> AST(TRUE, {}, {}, <<>>, <<>>))
    /\ manifest \in Manifests
    /\ \E k \in 1..Len(formats) :
         /\ outputFormat = k
         /\ langArgs = <<formats[k].mKey>>
         /\ outputPath = OutputModeSwitch(formats[k].mOutputMode, <<"o">>, <<>>, "0").outputPath
    /\ argv \in {a \in SeqsUpTo({NfcPkg, Iface(NfcPkg, "IFoo"),
                                  FQ(NfcPkg.package, NfcPkg.version, <<"types", "Alpha">>)},
                                 MaxArgs) : Len(a) >= 1}
    /\ pc = "loop"
    /\ generateForTest = FALSE
    /\ mRootPath = <<>>
    /\ mVerbose = FALSE
    /\ mPackageRoots = addDefaultPackagePaths({})
    /\ NoLoop
    /\ NoCall
    /\ NoGeneration

NextGen ==
    \/ LoopNext \/ LoopAfter
    \/ GenerateSources \/ GenerateExportHeader \/ GenerateAdapterMain
    \/ GenerateAndroidBpImpl \/ GenerateHash
    \/ BpAnalyze \/ JcStart \/ JcIter \/ JcFinish \/ BpEmit

SpecGen == InitGen /\ [][NextGen]_vars

(***************************************************************************)
(* hidl-gen -Landroidbp [-t] fqname+ over the trees of a vendor package    *)
(* that imports packages of two roots and whose types.hal declares its     *)
(* types in either order.                                                  *)
(***************************************************************************)
InitDet ==
    /\ \E sub \in {<<Named("Alpha", FALSE), Named("Gamma", FALSE)>>,
                    <<Named("Gamma", FALSE), Named("Alpha", FALSE)>>,
                    <<Named("Gamma", FALSE), Named("Beta", TRUE), Named("Alpha", FALSE)>>},
          exp \in {<<>>, <<"Status">>},
          jc \in BOOLEAN,
          imp \in {{}, {NfcPkg}, {MemoryPkg, NfcPkg}, {MemoryPkg, NfcPkg, VendorPkg}} :
         /\ dirs = (VendorPkg :> Dir(<<"types", "IFoo">>)) @@ (NfcPkg :> Dir(<<"IFoo">>))
                    @@ (MemoryPkg :> Dir(<<"IFoo">>))
         /\ asts = (Iface(VendorPkg, "types") :> AST(TRUE, {}, {}, exp, sub))
                    @@ (Iface(VendorPkg, "IFoo") :> AST(TRUE, imp, imp, <<>>, <<>>))
                    @@ (Iface(NfcPkg, "IFoo") :> AST(jc, {}, {}, <<"Mode">>, <<>>))
                    @@ (Iface(MemoryPkg, "IFoo") :> AST(TRUE, {}, {}, <<>>, <<>>))
    /\ argv \in {a \in SeqsUpTo({VendorPkg, NfcPkg}, MaxArgs) : Len(a) >= 1}
    /\ manifest = <<>>
    /\ pc = "loop"
    /\ outputFormat = FindFormat("androidbp")
    /\ langArgs = <<"androidbp">>
    /\ generateForTest \in BOOLEAN
    /\ outputPath = <<"/">>
    /\ mRootPath = <<>>
    /\ mVerbose = FALSE
    /\ mPackageRoots = addDefaultPackagePaths({VendorRoot})
    /\ NoLoop
    /\ NoCall
    /\ NoGeneration

SpecDet == InitDet /\ [][NextBp]_vars

(***************************************************************************)
(* hidl-gen -Landroidbp [-t] fqname+ over packages that fill or leave out  *)
(* each section of the Android.bp: a vendor package with or without an     *)
(* interface file, whose types.hal declares a type or only a typedef and   *)
(* may export a type; a package of android.hardware that may not be        *)
(* Java-compatible and may import android.hidl.memory, whose directory may *)
(* be missing; and the transport package android.hidl.base.               *)
(***************************************************************************)
InitSections ==
    /\ \E dV \in {Dir(<<"types">>), Dir(<<"types", "IFoo">>)},
          sub \in {<<Named("Alpha", FALSE)>>, <<Named("Beta", TRUE)>>},
          exp \in {<<>>, <<"Status">>},
          jc \in BOOLEAN,
          dM \in {NoDir, Dir(<<"IFoo">>)},
          nImp \in {{}, {MemoryPkg}} :
       \E vI \in ASTChoices(dV, "IFoo",
                     {AST(TRUE, imp, imp \cup (IF NfcPkg \in imp THEN nImp ELSE {}),
                          <<>>, <<>>) : imp \in {{}, {NfcPkg}}}),
          mI \in ASTChoices(dM, "IFoo", {AST(TRUE, {}, {}, <<>>, <<>>)}) :
         /\ exp # <<>> => ~sub[1].isTypeDef
         /\ dirs = (VendorPkg :> dV) @@ (NfcPkg :> Dir(<<"IFoo">>))
                    @@ (MemoryPkg :> dM) @@ (BasePkg :> Dir(<<"IFoo">>))
         /\ asts = (Iface(VendorPkg, "types") :> AST(TRUE, {}, {}, exp, sub))
                    @@ (Iface(VendorPkg, "IFoo") :> vI)
                    @@ (Iface(NfcPkg, "IFoo") :> AST(jc, nImp, nImp, <<"Mode">>, <<>>))
                    @@ (Iface(MemoryPkg, "IFoo") :> mI)
                    @@ (Iface(BasePkg, "IFoo") :> AST(TRUE, {}, {}, <<>>, <<>>))
    /\ argv \in {a \in SeqsUpTo({VendorPkg, NfcPkg, BasePkg}, MaxArgs) : Len(a) >= 1}
    /\ manifest = <<>>
    /\ pc = "loop"
    /\ outputFormat = FindFormat("androidbp")
    /\ langArgs = <<"androidbp">>
    /\ generateForTest \in BOOLEAN
    /\ outputPath = <<"/">>
    /\ mRootPath = <<>>
    /\ mVerbose = FALSE
    /\ mPackageRoots = addDefaultPackagePaths({VendorRoot})
    /\ NoLoop
    /\ NoCall
    /\ NoGeneration

SpecSections == InitSections /\ [][NextBp]_vars

(***************************************************************************)
(* hidl-gen -Landroidbp fqname+ over a vendor package whose interface      *)
(* imports any of: two versions of android.hardware.nfc, each of them      *)
(* types-only, interface-bearing or unreadable; the transport package      *)
(* android.hidl.base; and the vendor package itself.                       *)
(***************************************************************************)
InitImports ==
    /\ \E d10 \in {NoDir, Dir(<<"types">>), Dir(<<"IFoo">>)},
          d11 \in {NoDir, Dir(<<"types">>), Dir(<<"IFoo">>)},
          jc \in BOOLEAN,
          hier \in SUBSET {NfcPkg, Nfc11Pkg, BasePkg, VendorPkg} :
       \E t10 \in ASTChoices(d10, "types", {AST(TRUE, {}, {}, <<>>, <<Named("Alpha", FALSE)>>)}),
          i10 \in ASTChoices(d10, "IFoo", {AST(TRUE, {}, {}, <<>>, <<>>)}),
          t11 \in ASTChoices(d11, "types", {AST(TRUE, {}, {}, <<>>, <<Named("Alpha", FALSE)>>)}),
          i11 \in ASTChoices(d11, "IFoo", {AST(TRUE, {}, {}, <<>>, <<>>)}) :
         /\ dirs = (VendorPkg :> Dir(<<"IFoo">>)) @@ (NfcPkg :> d10) @@ (Nfc11Pkg :> d11)
                    @@ (BasePkg :> Dir(<<"IFoo">>))
         /\ asts = (Iface(VendorPkg, "IFoo") :> AST(jc, hier, hier, <<>>, <<>>))
                    @@ (Iface(NfcPkg, "types") :> t10) @@ (Iface(NfcPkg, "IFoo") :> i10)
                    @@ (Iface(Nfc11Pkg, "types") :> t11) @@ (Iface(Nfc11Pkg, "IFoo") :> i11)
                    @@ (Iface(BasePkg, "IFoo") :> AST(TRUE, {}, {}, <<>>, <<>>))
    /\ argv \in {a \in SeqsUpTo({VendorPkg, NfcPkg}, MaxArgs) : Len(a) >= 1}
    /\ manifest = <<>>
    /\ pc = "loop"
    /\ outputFormat = FindFormat("androidbp")
    /\ langArgs = <<"androidbp">>
    /\ generateForTest = FALSE
    /\ outputPath = <<"/">>
    /\ mRootPath = <<>>
    /\ mVerbose = FALSE
    /\ mPackageRoots = addDefaultPackagePaths({VendorRoot})
    /\ NoLoop
    /\ NoCall
    /\ NoGeneration

SpecImports == InitImports /\ [][NextBp]_vars

(***************************************************************************)
(* hidl-gen -Landroidbp fqname+ where an Android.bp of an earlier run may  *)
(* lie in the package directory, and each step of the analysis can fail:   *)
(* a directory that cannot be listed, a file that does not parse, an       *)
(* import whose directory or file is missing.                              *)
(***************************************************************************)
\* the content of an Android.bp written by an earlier run
EarlierContent == <<Comment("This file is autogenerated by hidl-gen. Do not edit manually.")>>

InitExisting ==
    /\ \E dX \in {NoDir, Dir(<<"types">>), Dir(<<"IFoo">>), Dir(<<"types", "IFoo">>)},
          dM \in {NoDir, Dir(<<"IFoo">>)} :
       \E xT \in ASTChoices(dX, "types",
                             {NullAST, AST(TRUE, {}, {}, <<>>, <<Named("Alpha", FALSE)>>)}),
          xI \in ASTChoices(dX, "IFoo",
                             {NullAST} \cup {AST(jc, imp, imp, <<>>, <<>>) :
                                               jc \in BOOLEAN, imp \in {{}, {MemoryPkg}}}),
          mI \in ASTChoices(dM, "IFoo", {NullAST, AST(TRUE, {}, {}, <<>>, <<>>)}) :
         /\ dirs = (NfcPkg :> dX) @@ (MemoryPkg :> dM)
         /\ asts = (Iface(NfcPkg, "types") :> xT) @@ (Iface(NfcPkg, "IFoo") :> xI)
                    @@ (Iface(MemoryPkg, "IFoo") :> mI)
    /\ files \in {<<>>, (AndroidBpFile(NfcPkg) :> EarlierContent)}
    /\ argv \in {a \in SeqsUpTo({NfcPkg, MemoryPkg}, MaxArgs) : Len(a) >= 1}
    /\ manifest = <<>>
    /\ pc = "loop"
    /\ outputFormat = FindFormat("androidbp")
    /\ langArgs = <<"androidbp">>
    /\ generateForTest = FALSE
    /\ outputPath = <<"/">>
    /\ mRootPath = <<>>
    /\ mVerbose = FALSE
    /\ mPackageRoots = addDefaultPackagePaths({})
    /\ argi = 0
    /\ parses = <<>>
    /\ returned = <<>>
    /\ stdout = <<>>
    /\ fqName = InvalidFQName
    /\ exitStatus = "running"
    /\ log = <<>>
    /\ once = FALSE
    /\ NoCall
    /\ NoGeneration

SpecExisting == InitExisting /\ [][NextBp]_vars

(***************************************************************************)
(* The whole driver, from the first option, over one package tree.         *)
(***************************************************************************)
Init ==
    /\ dirs = (NfcPkg :> Dir(<<"types", "IFoo">>)) @@ (MemoryPkg :> NoDir)
    /\ asts = (Iface(NfcPkg, "types")
                 :> AST(TRUE, {}, {}, <<"Status">>, <<Named("Alpha", FALSE)>>))
              @@ (Iface(NfcPkg, "IFoo") :> AST(TRUE, {NfcPkg}, {NfcPkg}, <<>>, <<>>))
    /\ manifest = <<>>
    /\ pc = "getopt"
    /\ outputFormat = 0
    /\ outputPath = <<>>
    /\ mRootPath \in {setRootPath(top) : top \in {<<>>, <<"t">>}}
    /\ mVerbose = FALSE
    /\ mPackageRoots = {}
    /\ langArgs = <<>>
    /\ generateForTest = FALSE
    /\ argv = <<>>
    /\ NoLoop
    /\ NoCall
    /\ NoGeneration

Next ==
    \/ Getopt \/ PostOpts \/ LoopNext \/ LoopAfter
    \/ GenerateSources \/ GenerateExportHeader \/ GenerateAdapterMain
    \/ GenerateAndroidBpImpl \/ GenerateHash
    \/ BpAnalyze \/ JcStart \/ JcIter \/ JcFinish \/ BpEmit

Spec == Init /\ [][Next]_vars

(***************************************************************************)
(* The closure the traversal is meant to cover, computed as a fixpoint     *)
(* that does not depend on the order of the worklist.                      *)
(***************************************************************************)
InterfacesOf(pkg) == Range(appendPackageInterfacesToVector(pkg).v)

ImportsOf(iface) == IF parse(iface).null THEN {} ELSE parse(iface).importedPackages

RECURSIVE ClosureFrom(_)
ClosureFrom(C) ==
    LET more == C \cup UNION {InterfacesOf(q) : q \in UNION {ImportsOf(i) : i \in C}} IN
    IF more = C THEN C ELSE ClosureFrom(more)

Closure(pkg) == ClosureFrom(InterfacesOf(pkg))

\* every enumeration and every parse of the closure succeeds
AllSucceed(pkg) ==
    /\ DirOf(pkg).ok
    /\ \A i \in Closure(pkg) :
          /\ ~parse(i).null
          /\ \A q \in ImportsOf(i) : DirOf(q).ok

JavaCompatibleAt(i) == ~parse(i).null /\ parse(i).javaCompatible

\* C1: when every enumeration and parse succeeds, isPackageJavaCompatible
\* returns OK; and whenever it returns OK, *compatible is true exactly when
\* every interface of the import closure is Java-compatible and false exactly
\* when some interface of the closure is not.
C1_JavaCompatClosure ==
    pc = "jc_return" =>
        /\ AllSucceed(fqName) => jcStatus = "OK"
        /\ jcStatus = "OK" =>
              /\ compatible # {}
              /\ compatible = {TRUE} <=> \A i \in Closure(fqName) : JavaCompatibleAt(i)
              /\ compatible = {FALSE} <=>
                    \E i \in Closure(fqName) : ~parse(i).null /\ ~parse(i).javaCompatible

\* a chain of imports, compatible to the end: the answer needs the whole closure
C1_Witness ==
    /\ pc = "jc_return"
    /\ AllSucceed(fqName)
    /\ compatible = {TRUE}
    /\ \E i \in Closure(fqName) : packageOf(i) = VendorPkg
    /\ \A i \in InterfacesOf(fqName) : VendorPkg \notin ImportsOf(i)

(***************************************************************************)
(* What a call of generateAndroidBpForPackage wrote, read off the state.   *)
(***************************************************************************)
\* the call of the loop returned after Android.bp was opened and written
Written == pc = "gen_return" /\ out # <<>>

Rules(kind, n) == {i \in 1..Len(out) : out[i].rule = kind /\ out[i].name = n}

Comments(text) == {i \in 1..Len(out) : out[i].rule = "comment" /\ out[i].text = text}

FormatterOpened == \E k \in 1..Len(log) : log[k].op = "getFormatter" /\ log[k].i = argi

\* the interfaces isPackageJavaCompatible popped from the worklist
Popped == seen \ Range(todo)

\* a parse of a popped interface, or an enumeration the traversal made, failed
TraversalFailed ==
    \/ ~DirOf(fqName).ok
    \/ \E i \in Popped : parse(i).null
    \/ \E i \in Popped : /\ JavaCompatibleAt(i)
                          /\ \E q \in ImportsOf(i) : ~DirOf(q).ok

\* C2: when a popped interface does not parse, or an imported package cannot
\* be enumerated, isPackageJavaCompatible returns a status that is not OK and
\* leaves *compatible unassigned; generateAndroidBpForPackage then returns
\* that status without having opened Android.bp.
C2_TraversalFailure ==
    /\ pc \in {"jc_return", "gen_return"} /\ jcStatus # "none" /\ TraversalFailed
          => jcStatus # "OK" /\ compatible = {}
    /\ pc = "gen_return" /\ jcStatus \notin {"none", "OK"}
          => /\ genStatus = jcStatus
             /\ isJavaCompatible = {}
             /\ out = <<>>
             /\ ~FormatterOpened
             /\ AndroidBpFile(fqName) \in DOMAIN files
                   => \E j \in 1..argi : argv[j] = fqName

\* an interface of an imported package does not parse
C2_Witness ==
    /\ pc = "gen_return"
    /\ jcStatus = "UNKNOWN_ERROR"
    /\ parse(jcFqName).null
    /\ packageOf(jcFqName) # fqName
    /\ genStatus = "UNKNOWN_ERROR"

\* the shape test of the code: also a single file that is not types
NeedsJavaShape ==
    /\ Len(packageInterfaces) >= 1
    /\ \/ Len(packageInterfaces) > 1
       \/ name(packageInterfaces[1]) # "types"
       \/ \E i \in 1..Len(typesAST.subTypes) : ~typesAST.subTypes[i].isTypeDef

\* the shape test as the claim words it
NeedsJavaShapeAsClaimed ==
    /\ Len(packageInterfaces) >= 1
    /\ \/ Len(packageInterfaces) > 1
       \/ /\ ~typesAST.null
          /\ \E i \in 1..Len(typesAST.subTypes) : ~typesAST.subTypes[i].isTypeDef

NothingForJava == Comments("This package has nothing to generate Java code.") # {}

\* C3 (amended): packageNeedsJavaCode is true exactly when the package has an
\* interface and either more than one file, or a single file that is not
\* types, or a types file with a sub-type that is not a typedef.
C3_NeedsJavaCode == Written => (~NothingForJava <=> NeedsJavaShape)

\* a package of one interface file that is not types: Java code is generated
C3_Witness ==
    /\ Written
    /\ Len(packageInterfaces) = 1
    /\ name(packageInterfaces[1]) = "IFoo"
    /\ ~NothingForJava

\* C3 as stated: true exactly when the package has an interface and either
\* more than one file or a types file with a sub-type that is not a typedef.
C3_AsStated == Written => (~NothingForJava <=> NeedsJavaShapeAsClaimed)

IsTransport(fq) == package(fq) \in {"android.hidl.base", "android.hidl.manager"}

\* C4: the build file of a transport package holds the file-group and the
\* two C++ genrules, no cc_library named after the package, and one comment
\* in its place; the build file of any other package holds exactly one
\* cc_library named after the package.
C4_TransportLibrary ==
    Written =>
        /\ Cardinality(Rules("filegroup", string(fqName) \o "_hal")) = 1
        /\ Cardinality(Rules("genrule", string(fqName) \o "_genc++")) = 1
        /\ Cardinality(Rules("genrule", string(fqName) \o "_genc++_headers")) = 1
        /\ IF IsTransport(fqName)
           THEN /\ Rules("cc_library", string(fqName)) = {}
                /\ Cardinality(Comments(string(fqName)
                                        \o " is exported from libhidltransport")) = 1
           ELSE /\ Cardinality(Rules("cc_library", string(fqName))) = 1
                /\ Comments(string(fqName) \o " is exported from libhidltransport") = {}

C4_Witness ==
    /\ Written
    /\ fqName = BasePkg
    /\ Rules("cc_library", string(fqName)) = {}
    /\ Len(packageInterfaces) = 1

\* the rules of the adapter group, in the order they are written
AdapterGroup ==
    <<Rules("genrule", string(fqName) \o "-adapter-helper_genc++"),
      Rules("genrule", string(fqName) \o "-adapter-helper_genc++_headers"),
      Rules("cc_library", string(fqName) \o "-adapter-helper"),
      Rules("genrule", string(fqName) \o "-adapter_genc++"),
      Rules("cc_test", string(fqName) \o "-adapter")>>

NoAdapter ==
    Comments("This package has no interfaces. Not creating versioning adapter.") # {}

\* isTypesOnlyPackage succeeds for every package the adapter helper asks about
HelperPackagesListed == \A q \in importedPackagesHierarchy \ {fqName} : DirOf(q).ok

\* C5 (amended): a types-only package gets none of the adapter rules, only a
\* comment; a package that is not types-only gets the whole group when
\* isTypesOnlyPackage succeeds for every imported package, and otherwise the
\* first three rules and an error status.
C5_AdapterGroup ==
    Written =>
        IF isTypesOnlyPackage(fqName).result
        THEN NoAdapter /\ \A k \in 1..5 : AdapterGroup[k] = {}
        ELSE /\ ~NoAdapter
             /\ genStatus = "OK" <=> HelperPackagesListed
             /\ \A k \in 1..3 : Cardinality(AdapterGroup[k]) = 1
             /\ \A k \in 4..5 :
                   Cardinality(AdapterGroup[k]) = IF genStatus = "OK" THEN 1 ELSE 0

\* the adapter helper asks about an imported package that cannot be listed
C5_Witness ==
    /\ Written
    /\ ~isTypesOnlyPackage(fqName).result
    /\ genStatus # "OK"
    /\ AdapterGroup[3] # {}
    /\ AdapterGroup[5] = {}

\* C5 as stated: the five adapter rules are in the build file exactly when
\* the package is not types-only, and a types-only package gets only a comment.
C5_AsStated ==
    Written =>
        /\ (\A k \in 1..5 : AdapterGroup[k] # {}) <=> ~isTypesOnlyPackage(fqName).result
        /\ isTypesOnlyPackage(fqName).result
              => NoAdapter /\ \A k \in 1..5 : AdapterGroup[k] = {}

\* the union E of the exported types of the package's interfaces is not empty
ExportsTypes(pkg) == \E i \in InterfacesOf(pkg) : parse(i).exportedTypes # <<>>

ConstantsName(fq) == package(fq) \o "-V" \o version(fq) \o "-java-constants"

SystemNamespaces ==
    {<<"android", "hidl">>, <<"android", "system">>, <<"android", "frameworks">>,
     <<"android", "hardware">>}

InSystemNamespace(fq) == Len(fq.package) >= 2 /\ SubSeq(fq.package, 1, 2) \in SystemNamespaces

SystemProcessAllowList ==
    {"android.hardware.graphics.allocator@2.0", "android.hardware.graphics.common@1.0",
     "android.hardware.graphics.mapper@2.0", "android.hardware.graphics.mapper@2.1",
     "android.hardware.renderscript@1.0", "android.hidl.memory@1.0"}

\* C7: the cc_library of a package that is no transport package is VNDK
\* (vendor_available and vndk enabled) exactly when the package is in a
\* system namespace and the run is not in test mode, carries
\* support_system_process exactly when it is VNDK and on the allow-list, is
\* vendor_available otherwise, and is never plain vendor.
C7_LibraryPlacement ==
    Written /\ ~IsTransport(fqName) =>
        \A i \in Rules("cc_library", string(fqName)) :
            /\ out[i].placement.vendor_available
            /\ ~out[i].placement.vendor
            /\ out[i].placement.vndk <=> InSystemNamespace(fqName) /\ ~generateForTest
            /\ out[i].placement.support_system_process
                  <=> /\ out[i].placement.vndk
                      /\ string(fqName) \in SystemProcessAllowList

\* an allow-listed system package outside test mode
C7_Witness ==
    /\ Written
    /\ fqName = MemoryPkg
    /\ ~generateForTest
    /\ \E i \in Rules("cc_library", string(fqName)) :
          out[i].placement.vndk /\ out[i].placement.support_system_process

(***************************************************************************)
(* The driver.                                                             *)
(***************************************************************************)
Keys == {formats[i].mKey : i \in 1..Len(formats)}

\* the fqname loop was entered
InLoop == pc \in {"loop", "generate", "jc_call", "jc_loop", "jc_return", "gen_return"}

\* C8: a second -L, a -L token that is no key of the table, and a command
\* line without -L each end main with status 1 before any validator or
\* generator is called; with one recognized -L the handler selected is the
\* entry of the table whose key is the token.
C8_LanguageOption ==
    /\ Len(langArgs) >= 2 => pc = "exit" /\ exitStatus = "1" /\ log = <<>>
    /\ Len(langArgs) >= 1 /\ langArgs[1] \notin Keys
          => pc = "exit" /\ exitStatus = "1" /\ log = <<>>
    /\ Len(langArgs) = 0
          => /\ pc \in {"getopt", "parsed", "exit"}
             /\ pc = "exit" => exitStatus = "1"
             /\ pc = "parsed" => ~ENABLED LoopNext
             /\ log = <<>>
    /\ Len(langArgs) = 1 /\ langArgs[1] \in Keys
          => outputFormat \in 1..Len(formats) /\ formats[outputFormat].mKey = langArgs[1]
    /\ InLoop \/ log # <<>>
          => /\ Len(langArgs) = 1
             /\ outputFormat \in 1..Len(formats)
             /\ formats[outputFormat].mKey = langArgs[1]

\* the same language given twice
C8_Witness ==
    /\ pc = "exit"
    /\ exitStatus = "1"
    /\ Len(langArgs) = 2
    /\ langArgs[1] = langArgs[2]
    /\ langArgs[1] = "androidbp"

EnsureSlash(path) == IF path # <<>> /\ Last(path) = "/" THEN path ELSE Append(path, "/")

\* normalize(mode, -o value, root path) of the claim
Normalize(mode, o, rootPath) ==
    CASE mode = "NEEDS_DIR" -> EnsureSlash(o)
      [] mode = "NEEDS_FILE" -> o
      [] mode = "NEEDS_SRC" -> EnsureSlash(IF o = <<>> THEN rootPath ELSE o)
      [] OTHER -> <<>>

\* the path main arrives at is normalize(...), it is not touched afterwards,
\* and it is the path each generator is called with
HandsNormalized ==
    /\ pc = "parsed" /\ pc' = "loop" /\ formats[outputFormat].generate # "nullptr"
          => outputPath' = Normalize(formats[outputFormat].mOutputMode, outputPath, mRootPath)
    /\ InLoop => outputPath' = outputPath
    /\ pc = "loop" /\ pc' = "generate" => log'[Len(log')].outputPath = outputPath

\* outputPath.back() is called on a string that is not empty
BackDefined ==
    formats[outputFormat].mOutputMode = "NEEDS_SRC" => outputPath # <<>> \/ mRootPath # <<>>

\* C9 where the code is defined: when the path whose last character main
\* reads is not empty, every generator is called with normalize(mode, -o
\* value, root path).
C9_WhereDefined ==
    [][(pc = "parsed" /\ pc' = "loop" /\ ~BackDefined) \/ HandsNormalized]_vars

\* a NEEDS_SRC handler without -o and without a root path: the path whose last
\* character is read is empty, and the generator is called with an empty path
C9_Witness ==
    /\ pc = "generate"
    /\ formats[outputFormat].mOutputMode = "NEEDS_SRC"
    /\ mRootPath = <<>>
    /\ outputPath = <<>>
    /\ log[Len(log)].outputPath = <<>>

\* C9 as stated: every generator is called with normalize(mode, -o value,
\* root path), for every mode, with and without -o, with and without a
\* trailing '/'.
C9_AsStated == [][HandsNormalized]_vars

\* the validator and generator calls, in the order they were made
Calls == SelectSeq(log, LAMBDA e : e.op \in {"validate", "generate"})

\* C10: the fqnames are taken in argument order, each validated and then
\* generated before the next; once the generator of fqname i returns a status
\* that is not OK, main ends with status 1 and no validator or generator is
\* called for a later fqname.
C10_FqnameLoop ==
    /\ \A k \in 1..Len(Calls) :
          /\ Calls[k].i = (k - 1) \div 2
          /\ Calls[k].op = IF k % 2 = 1 THEN "validate" ELSE "generate"
          /\ Calls[k].i < Len(argv)
          /\ Calls[k].fqName = argv[Calls[k].i + 1]
    /\ pc = "loop" => Len(Calls) = 2 * argi /\ (argi > 0 => genStatus = "OK")
    /\ pc \in {"generate", "jc_call", "jc_loop", "jc_return", "gen_return"}
          => Len(Calls) = 2 * (argi + 1)
    /\ pc = "gen_return" /\ genStatus # "OK" => ~ENABLED LoopNext
    /\ pc = "exit" /\ genStatus \notin {"none", "OK"}
          => exitStatus = "1" /\ Len(Calls) = 2 * (argi + 1)
    /\ pc = "exit" /\ exitStatus = "0" => Len(Calls) = 2 * Len(argv)

\* the generator of the first of two fqnames fails: the second is never looked at
C10_Witness ==
    /\ pc = "exit"
    /\ exitStatus = "1"
    /\ genStatus \notin {"none", "OK"}
    /\ argi = 0
    /\ Len(argv) = 2
    /\ Len(Calls) = 2

(***************************************************************************)
(* C11.  The exit status.                                                  *)
(***************************************************************************)
\* every positional fqname is valid, was accepted by the validator of the
\* handler, and the generator returned OK for it
AllGenerated ==
    /\ outputFormat # 0
    /\ Len(argv) >= 1
    /\ Len(returned) = Len(argv)
    /\ \A j \in 1..Len(argv) :
         /\ isValid(argv[j])
         /\ Validate(formats[outputFormat], argv[j])
         /\ returned[j] = "OK"

\* C11: the process ends only through exit or the return of main, with status
\* 0 or 1; the status is 0 exactly when the options were accepted (the fqname
\* loop was entered), at least one fqname was given, and every fqname was
\* valid, validated and generated with status OK; no generator that is a null
\* pointer is called and no CHECK fails
C11_ExitStatus ==
    /\ pc # "abort"
    /\ pc = "generate" => formats[outputFormat].generate # "nullptr"
    /\ pc # "exit" => exitStatus = "running"
    /\ pc = "exit" =>
         /\ exitStatus \in {"0", "1"}
         /\ exitStatus = "0" <=> AllGenerated

\* a run over two fqnames that ends with status 0
C11_Witness ==
    /\ pc = "exit"
    /\ exitStatus = "0"
    /\ Len(argv) = 2
    /\ returned = <<"OK", "OK">>

(***************************************************************************)
(* C12.  Validators and dotted local names.                                *)
(***************************************************************************)
\* the local name contains a '.'
Dotted(fq) == Len(fq.name) > 1

\* the local name starts with "types."
StartsWithTypes(fq) == Dotted(fq) /\ fq.name[1] = "types"

\* the validate calls of the fqname loop, as positions of the log
ValidateCalls == {k \in 1..Len(log) : log[k].op = "validate"}

\* the validator accepted: the generator is called next, for the same fqname
Accepted(k) ==
    /\ k < Len(log)
    /\ log[k + 1].op = "generate"
    /\ log[k + 1].fqName = log[k].fqName

\* C12: a fqname with a dotted local name is accepted only by the java handler
\* and only when the name starts with "types."; a handler validated by
\* validateForSource accepts every fqname with package and version whose name
\* is empty or has no dot; a handler validated by validateIsPackage accepts
\* exactly the fqnames with package and version and an empty name; no generator
\* is called with a dotted name other than java with types.Name
C12_DottedNames ==
    /\ \A k \in ValidateCalls :
         LET fq == log[k].fqName
             h == formats[outputFormat]
         IN  /\ (Dotted(fq) /\ Accepted(k)) => (h.mKey = "java" /\ StartsWithTypes(fq))
             /\ (h.validate = "validateForSource" /\ fq.package # <<>>
                    /\ fq.version # <<>> /\ ~Dotted(fq)) => Accepted(k)
             /\ h.validate = "validateIsPackage" =>
                   (Accepted(k) <=> fq.package # <<>> /\ fq.version # <<>> /\ fq.name = <<>>)
             /\ Accepted(k) => (fq.package # <<>> /\ fq.version # <<>>)
    /\ \A k \in 1..Len(log) :
         (log[k].op = "generate" /\ Dotted(log[k].fqName))
            => (formats[outputFormat].mKey = "java" /\ StartsWithTypes(log[k].fqName))

\* the java validator accepted types.Alpha and the java generator is called
C12_Witness ==
    /\ pc = "generate"
    /\ formats[outputFormat].mKey = "java"
    /\ StartsWithTypes(fqName)
    /\ \E k \in ValidateCalls : log[k].fqName = fqName /\ Accepted(k)

(***************************************************************************)
(* C13.  Hash enforcement.                                                 *)
(***************************************************************************)
\* parse was called for an interface whose manifest digest is not its file's
MismatchParsed == \E k \in 1..Len(parses) : HashMismatch(parses[k].fqName)

\* the call in progress, or the process, has failed
Failing ==
    \/ pc = "jc_return" /\ jcStatus \notin {"OK", "none"}
    \/ pc = "gen_return" /\ genStatus # "OK"
    \/ pc = "exit" /\ exitStatus = "1"

\* C13: parse is called with NO_HASH by the hash handler and by no other;
\* once a handler other than hash has parsed an interface whose manifest
\* digest differs from the file's, its generator fails and the process exits
\* with 1; the hash handler parses such an interface and prints its line with
\* the digest of the file, and fails only where the interface has no AST
C13_HashEnforcement ==
    /\ \A k \in 1..Len(parses) :
         parses[k].enforcement = "NO_HASH" <=> formats[outputFormat].mKey = "hash"
    /\ \A k \in 1..Len(parses) :
         parses[k].enforcement # "NO_HASH" => parses[k].enforcement = "DEFAULT"
    /\ (MismatchParsed /\ formats[outputFormat].mKey # "hash") => Failing
    /\ (formats[outputFormat].mKey = "hash" /\ pc \in {"gen_return", "loop", "exit"}) =>
         \A k \in 1..Len(parses) :
            LET f == parses[k].fqName IN
            IF parseEnforced(f, "NO_HASH").null THEN Failing
            ELSE /\ HashLine(f) \in Range(stdout)
                 /\ HashMismatch(f) => HashLine(f).hex # manifest[f]

\* androidbp fails in the Java-compatibility traversal, at an imported
\* interface whose digest is not the recorded one
C13_Witness ==
    /\ formats[outputFormat].mKey = "androidbp"
    /\ pc = "exit"
    /\ exitStatus = "1"
    /\ HashMismatch(jcFqName)
    /\ parses[Len(parses)] = Parsed(jcFqName, "DEFAULT")

\* hash succeeds on an interface whose digest is not the recorded one
HashPrintsMismatched ==
    /\ formats[outputFormat].mKey = "hash"
    /\ pc = "exit"
    /\ exitStatus = "0"
    /\ MismatchParsed

(***************************************************************************)
(* C14.  The lines of hash.                                                *)
(***************************************************************************)
\* the interfaces hash is asked about: the fqname itself when it names an
\* interface, the files of the package otherwise, types first
HashTargets(fq) ==
    IF fq.name # <<>> THEN <<fq>>
    ELSE IF fq \in DOMAIN dirs /\ dirs[fq].ok
    THEN [i \in 1..Len(dirs[fq].names) |-> FQ(fq.package, fq.version, <<dirs[fq].names[i]>>)]
    ELSE <<>>

\* the file of the interface can be parsed
Parses(f) == f \in DOMAIN asts /\ ~asts[f].null

\* the targets before the first one that does not parse
RECURSIVE ParsingPrefix(_)
ParsingPrefix(targets) ==
    IF targets = <<>> \/ ~Parses(Head(targets)) THEN <<>>
    ELSE <<Head(targets)>> \o ParsingPrefix(Tail(targets))

\* C14: a call of the hash generator appends to stdout one line
\* "<digest of the file> <fqname>" for each interface before the first one
\* that does not parse, in enumeration order, and nothing else: n lines and
\* the status OK when all n interfaces parse (one line for a fully-qualified
\* fqname), an error when one does not parse or the package cannot be listed
C14_HashLines ==
    [][(pc = "generate" /\ formats[outputFormat].mKey = "hash") =>
         LET targets == HashTargets(fqName)
             good == ParsingPrefix(targets)
         IN  /\ pc' = "gen_return"
             /\ stdout' = stdout \o [i \in 1..Len(good) |->
                                        [hex |-> getHash(good[i]), fqName |-> string(good[i])]]
             /\ genStatus' = "OK" <=>
                   (Len(good) = Len(targets) /\ (fqName.name = <<>> => dirs[fqName].ok))]_vars

\* the first interface of a package was printed, the second did not parse
C14_Witness ==
    /\ formats[outputFormat].mKey = "hash"
    /\ pc = "gen_return"
    /\ fqName.name = <<>>
    /\ Len(HashTargets(fqName)) = 2
    /\ stdout = <<HashLine(HashTargets(fqName)[1])>>
    /\ genStatus = "UNKNOWN_ERROR"

(***************************************************************************)
(* C15.  export-header and java-constants without exported types.          *)
(***************************************************************************)
ExportHandler == formats[outputFormat].generate = "generateExportHeaderForPackage"

\* the package can be listed and every file of it parses
AllParse(pkg) ==
    /\ pkg \in DOMAIN dirs /\ dirs[pkg].ok
    /\ \A i \in 1..Len(HashTargets(pkg)) : ~parse(HashTargets(pkg)[i]).null

\* some file of the package has an exported type
SomeExported(pkg) ==
    \E i \in 1..Len(HashTargets(pkg)) :
       LET f == HashTargets(pkg)[i] IN Parses(f) /\ asts[f].exportedTypes # <<>>

\* C15: a call of the export-header or java-constants generator on a package
\* whose interfaces all parse and export no type returns OK without a call of
\* getFormatter and leaves every file as it was; the generator calls
\* getFormatter, and writes, only when all interfaces have parsed and some
\* type is exported
C15_NoExportedTypes ==
    [][(pc = "generate" /\ ExportHandler) =>
         /\ (AllParse(fqName) /\ ~SomeExported(fqName)) =>
               (genStatus' = "OK" /\ log' = log /\ files' = files /\ out' = out)
         /\ log' # log =>
               /\ AllParse(fqName) /\ SomeExported(fqName)
               /\ log' = Append(log, Logged("getFormatter", argi, fqName, outputPath))
               /\ Len(parses') = Len(parses) + Len(HashTargets(fqName))
         /\ (files' # files \/ out' # out) => log' # log]_vars

\* java-constants returned OK for a package of two interfaces that export
\* nothing: no formatter, no file
C15_Witness ==
    /\ formats[outputFormat].mKey = "java-constants"
    /\ pc = "gen_return"
    /\ genStatus = "OK"
    /\ Len(HashTargets(fqName)) = 2
    /\ AllParse(fqName) /\ ~SomeExported(fqName)
    /\ \A k \in 1..Len(log) : log[k].op # "getFormatter"
    /\ files = <<>>

(***************************************************************************)
(* C16.  The Android.bp is a function of the inputs.                       *)
(***************************************************************************)
\* the files of the package, from the directory alone
FilesOf(pkg) ==
    IF pkg \in DOMAIN dirs /\ dirs[pkg].ok
    THEN [i \in 1..Len(dirs[pkg].names) |-> FQ(pkg.package, pkg.version, <<dirs[pkg].names[i]>>)]
    ELSE <<>>

\* generation for the package reaches the constants genrule
ReachesConstants(pkg) ==
    /\ FilesOf(pkg) # <<>>
    /\ \E i \in 1..Len(FilesOf(pkg)) : asts[FilesOf(pkg)[i]].exportedTypes # <<>>
    /\ \E i \in 1..Len(FilesOf(pkg)) :
          \/ FilesOf(pkg)[i].name # <<"types">>
          \/ \E t \in Range(asts[FilesOf(pkg)[i]].subTypes) : ~t.isTypeDef

\* the Android.bp of the j-th fqname, from the inputs of the invocation only:
\* the directories, the ASTs of the files, -t and the fqnames before it
ContentWith(j, forTest) ==
    LET pkg == argv[j]
        fs == FilesOf(pkg)
        typesAt == {i \in 1..Len(fs) : fs[i].name = <<"types">>}
    IN  AndroidBpContent(pkg, fs,
            UNION {asts[fs[i]].importedPackagesHierarchy : i \in 1..Len(fs)},
            Flatten([i \in 1..Len(fs) |-> asts[fs[i]].exportedTypes]),
            IF typesAt = {} THEN NullAST ELSE asts[fs[CHOOSE i \in typesAt : TRUE]],
            Len(fs) = 1 /\ typesAt # {},
            \A i \in Closure(pkg) : JavaCompatibleAt(i),
            forTest,
            \E i \in 1..(j - 1) : ReachesConstants(argv[i])).rules

ContentFromInputs(j) == ContentWith(j, generateForTest)

Position(order, x) == CHOOSE i \in 1..Len(order) : order[i] = x

\* the elements of the list that order ranks appear in that order, once each
InOrderOf(order, list) ==
    \A i, j \in 1..Len(list) :
       (i < j /\ list[i] \in Range(order) /\ list[j] \in Range(order))
          => Position(order, list[i]) < Position(order, list[j])

\* C16: the Android.bp written for a fqname is determined by the inputs of
\* the invocation (the files, -t, the fqname list), whatever else happened in
\* the run, so two invocations on the same inputs write the same content; in
\* it the file-group lists the interfaces in enumeration order, every genrule
\* lists the -r options in ascending order without duplicates, the libraries
\* of imported packages follow the order of FQName, and the Java files of the
\* types of types.hal follow the order of their names
C16_Deterministic ==
    Written =>
        /\ out = ContentFromInputs(argi + 1)
        /\ files[AndroidBpFile(fqName)] = out
        /\ \A i \in 1..Len(out) :
              /\ out[i].rule = "filegroup" =>
                    out[i].srcs = [k \in 1..Len(FilesOf(fqName)) |->
                                     dirs[fqName].names[k] \o ".hal"]
              /\ out[i].rule = "genrule" =>
                    /\ InOrderOf(OptionOrder, out[i].roots)
                    /\ Range(out[i].roots) \subseteq Range(OptionOrder)
                    /\ out[i].language = "java" =>
                          InOrderOf([k \in 1..Len(TypeNameOrder) |->
                                       GenSanitizedPath(fqName) \o TypeNameOrder[k] \o ".java"],
                                    out[i].out)
              /\ out[i].rule = "java_library" /\ out[i].name = makeJavaLibraryName(fqName) =>
                    InOrderOf([k \in 1..Len(PackageOrder) |->
                                 makeJavaLibraryName(PackageOrder[k])], out[i].libs)
              /\ out[i].rule = "cc_library" =>
                    InOrderOf([k \in 1..Len(PackageOrder) |->
                                 makeLibraryName(PackageOrder[k])], out[i].shared_libs)

\* the second Android.bp of an invocation, for a package whose types are
\* declared in descending order and whose imports come from two roots
C16_Witness ==
    /\ Written
    /\ argi = 1
    /\ fqName = VendorPkg
    /\ asts[Iface(VendorPkg, "types")].subTypes[1].localName = "Gamma"
    /\ \E i \in 1..Len(out) :
          /\ out[i].rule = "genrule" /\ out[i].language = "java"
          /\ Len(out[i].roots) = 3
          /\ Len(out[i].out) = 3

(***************************************************************************)
(* C17.  The traversal terminates.                                         *)
(***************************************************************************)
NoDuplicates(q) == \A i, j \in 1..Len(q) : q[i] = q[j] => i = j

\* the import graph has a cycle through the package of the call
ImportsItself(pkg) ==
    \E i \in InterfacesOf(pkg) :
       \E q \in ImportsOf(i) : \E k \in InterfacesOf(q) : pkg \in ImportsOf(k)

\* C17: in isPackageJavaCompatible every interface on the worklist is in seen
\* and is on the worklist once, no interface is parsed twice, the number of
\* parses (one per iteration) is at most the number of interfaces reachable
\* through imports, and the call returns, also when packages import each
\* other or themselves
C17_Terminates ==
    /\ [](/\ Range(todo) \subseteq seen
          /\ NoDuplicates(todo)
          /\ NoDuplicates(parses)
          /\ \A k \in 1..Len(parses) : parses[k].fqName \in Closure(fqName)
          /\ Len(parses) <= Cardinality(Closure(fqName)))
    /\ <>(pc = "jc_return")

\* the call returned after a traversal through packages that import each other
C17_Witness ==
    /\ pc = "jc_return"
    /\ jcStatus = "OK"
    /\ ImportsItself(fqName)
    /\ \E i \in InterfacesOf(fqName) : fqName \notin ImportsOf(i) /\ ImportsOf(i) # {}
    /\ Len(parses) = Cardinality(Closure(fqName))
    /\ Len(parses) >= 3

(***************************************************************************)
(* C18.  The Java target of Android.bp.                                    *)
(***************************************************************************)
JavaGenrules == Rules("genrule", makeJavaLibraryName(fqName) \o "_gen_java")

JavaLibraries == Rules("java_library", makeJavaLibraryName(fqName))

NotJavaCompatibleComments ==
    Comments("This package is not java compatible. Not creating java target.")

\* every interface the package reaches through imports is Java-compatible
ClosureJavaCompatible == \A i \in Closure(fqName) : JavaCompatibleAt(i)

\* C18: in a written Android.bp, a package that needs Java code and is not
\* Java-compatible has neither the Java genrule nor the java_library
\* <package>-V<version>-java but the comment, once; one that needs Java code
\* and is Java-compatible has each of the two exactly once and no comment;
\* one that does not need Java code has neither of them, nor the constants
\* genrule, nor the constants library
C18_JavaTarget ==
    Written =>
        IF ~packageNeedsJavaCode(packageInterfaces, typesAST)
        THEN /\ JavaGenrules = {} /\ JavaLibraries = {}
             /\ Rules("genrule", ConstantsName(fqName) \o "_gen_java") = {}
             /\ Rules("java_library", ConstantsName(fqName)) = {}
             /\ NotJavaCompatibleComments = {}
        ELSE IF ClosureJavaCompatible
        THEN /\ Cardinality(JavaGenrules) = 1 /\ Cardinality(JavaLibraries) = 1
             /\ NotJavaCompatibleComments = {}
        ELSE /\ JavaGenrules = {} /\ JavaLibraries = {}
             /\ Cardinality(NotJavaCompatibleComments) = 1

\* a package of two files whose interface is not Java-compatible: the comment
\* stands where the Java rules would be
C18_Witness ==
    /\ Written
    /\ Len(packageInterfaces) = 2
    /\ packageNeedsJavaCode(packageInterfaces, typesAST)
    /\ ~ClosureJavaCompatible
    /\ NotJavaCompatibleComments # {}

(***************************************************************************)
(* C19.  What -t changes.                                                  *)
(***************************************************************************)
IsMainLibrary(r) == r.rule = "cc_library" /\ r.name = makeLibraryName(fqName)

\* the rules with the placement attributes of the package's main library
\* left out
WithoutPlacement(rules) ==
    [i \in 1..Len(rules) |->
       IF IsMainLibrary(rules[i]) THEN [rules[i] EXCEPT !.placement = "left out"]
       ELSE rules[i]]

\* C19: a run with -t reaches the fqname loop only under -L androidbp and
\* ends with status 1 under every other handler; the Android.bp written with
\* -t and the one written without it, for the same fqnames on the same files,
\* have the same rules in the same order and differ at most in the placement
\* attributes of the package's main cc_library: with -t it is
\* vendor_available without a vndk block, without -t a system package has
\* the vndk block
C19_TestMode ==
    /\ (generateForTest /\ pc \notin {"getopt", "parsed", "exit"}) =>
          formats[outputFormat].mKey = "androidbp"
    /\ (generateForTest /\ pc = "exit" /\ langArgs # <<"androidbp">>) => exitStatus = "1"
    /\ (Written /\ formats[outputFormat].mKey = "androidbp") =>
          LET other == ContentWith(argi + 1, ~generateForTest) IN
          /\ WithoutPlacement(out) = WithoutPlacement(other)
          /\ \A i \in 1..Len(out) :
                IsMainLibrary(out[i]) =>
                   LET with == IF generateForTest THEN out[i] ELSE other[i]
                       without == IF generateForTest THEN other[i] ELSE out[i]
                   IN  /\ with.placement = [vendor |-> FALSE, vendor_available |-> TRUE,
                                            vndk |-> FALSE, support_system_process |-> FALSE]
                       /\ without.placement.vndk = InSystemNamespace(fqName)
                       /\ without.placement.vendor_available

\* an Android.bp written with -t for a system package: its main library has
\* no vndk block, the one written without -t has
C19_Witness ==
    /\ Written
    /\ formats[outputFormat].mKey = "androidbp"
    /\ generateForTest
    /\ \E i \in 1..Len(out) :
          /\ IsMainLibrary(out[i])
          /\ ~out[i].placement.vndk
          /\ ContentWith(argi + 1, FALSE)[i].placement.vndk
    /\ \E i \in 1..Len(out) : out[i].rule = "cc_test"

(***************************************************************************)
(* C20.  The order of the sections of Android.bp.                          *)
(***************************************************************************)
\* what a rule or a comment of the file is, for the comparison of positions
Key(r) == IF r.rule = "comment" THEN "// " \o r.text ELSE r.rule \o " " \o r.name

\* the groups of the file, in the order claimed: (a) the file-group, (b) the
\* C++ genrules, (c) the C++ library or its comment, (d) the Java rules or
\* their comment, (e) the constants rules or their comment, (f) the adapter
\* rules or their comment; the comment of a package with nothing for Java
\* stands for (d) and (e)
SectionOrder(pkg) ==
    <<<<"// This file is autogenerated by hidl-gen. Do not edit manually.">>,
      <<"filegroup " \o makeHalFilegroupName(pkg)>>,
      <<"genrule " \o makeLibraryName(pkg) \o "_genc++",
        "genrule " \o makeLibraryName(pkg) \o "_genc++_headers">>,
      <<"cc_library " \o makeLibraryName(pkg),
        "// " \o string(pkg) \o " is exported from libhidltransport">>,
      <<"genrule " \o makeJavaLibraryName(pkg) \o "_gen_java",
        "java_library " \o makeJavaLibraryName(pkg),
        "// This package is not java compatible. Not creating java target.",
        "// This package has nothing to generate Java code.">>,
      <<"genrule " \o ConstantsName(pkg) \o "_gen_java",
        "java_library " \o ConstantsName(pkg),
        "// This package does not export any types. Not creating java constants export.">>,
      <<"genrule " \o makeLibraryName(pkg) \o "-adapter-helper_genc++",
        "genrule " \o makeLibraryName(pkg) \o "-adapter-helper_genc++_headers",
        "cc_library " \o makeLibraryName(pkg) \o "-adapter-helper",
        "genrule " \o makeLibraryName(pkg) \o "-adapter_genc++",
        "cc_test " \o makeLibraryName(pkg) \o "-adapter",
        "// This package has no interfaces. Not creating versioning adapter.">>>>

\* where the entries of the file stand in the groups: <<group, place in the
\* group>>, <<0, 0>> for an entry of no group
Places(pkg, rules) ==
    LET so == SectionOrder(pkg)
        all == {<<g, q>> : g \in 1..Len(so), q \in 1..6}
    IN  [i \in 1..Len(rules) |->
           LET k == Key(rules[i])
               hits == {gq \in all : gq[2] <= Len(so[gq[1]]) /\ so[gq[1]][gq[2]] = k}
           IN  IF hits = {} THEN <<0, 0>> ELSE CHOOSE gq \in hits : TRUE]

\* the entry is a comment that stands for the rules of its group
IsComment(r) == r.rule = "comment"

\* C20: in every Android.bp written, every entry belongs to one of the
\* groups, the groups appear in the order (a) to (f) with no entry of a group
\* before an entry of an earlier group, within a group the rules are in the
\* order of the list (sources genrule before headers genrule, genrule before
\* its library), no entry appears twice, and a group holds either its rules
\* or its comment, not both
C20_SectionOrder ==
    Written =>
        LET places == Places(fqName, out) IN
        /\ \A i \in 1..Len(out) : places[i][1] # 0
        /\ \A i \in 1..(Len(out) - 1) :
              \/ places[i][1] < places[i + 1][1]
              \/ /\ places[i][1] = places[i + 1][1]
                 /\ places[i][2] < places[i + 1][2]
                 /\ ~IsComment(out[i]) /\ ~IsComment(out[i + 1])
        /\ \E i \in 1..Len(out) : out[i].rule = "filegroup"

\* an Android.bp with rules in each of the six groups
C20_Witness ==
    /\ Written
    /\ {Places(fqName, out)[i][1] : i \in 1..Len(out)} = 1..7
    /\ \A i \in 2..Len(out) : ~IsComment(out[i])
    /\ Len(out) = 14

(***************************************************************************)
(* C21.  Adapter-helper dependencies.                                      *)
(***************************************************************************)
\* the cc_library rules named <package>-adapter-helper among rules
AdapterHelpers(pkg, rules) ==
    {i \in 1..Len(rules) : /\ rules[i].rule = "cc_library"
                           /\ rules[i].name = makeLibraryName(pkg) \o "-adapter-helper"}

\* the imported packages other than the package itself
OtherImports == importedPackagesHierarchy \ {fqName}

\* the imported packages whose isTypesOnlyPackage fails
FailingImports == {q \in OtherImports : isTypesOnlyPackage(q).err # "OK"}

\* list names the adapter helper of q
ListsHelperOf(list, q) == (makeLibraryName(q) \o "-adapter-helper") \in Range(list)

\* C21: in every Android.bp written for a package with interfaces, both
\* lists of the adapter-helper cc_library hold libhidladapter and never the
\* package's own helper; an import's helper is listed only when
\* isTypesOnlyPackage succeeded with false for it, and, when it fails for no
\* import, for every import other than the package itself exactly when it is
\* false for that FQName (two versions of a package are decided each on its
\* own) and the generator returns OK; when isTypesOnlyPackage fails for some
\* import, the generator returns that error.
C21_AdapterHelperDeps ==
    (Written /\ isTypesOnly = {FALSE}) =>
        /\ AdapterHelpers(fqName, out) # {}
        /\ \A i \in AdapterHelpers(fqName, out) :
              \A list \in {out[i].shared_libs, out[i].export_shared_lib_headers} :
                 /\ "libhidladapter" \in Range(list)
                 /\ ~ListsHelperOf(list, fqName)
                 /\ \A q \in OtherImports :
                       ListsHelperOf(list, q) =>
                          /\ isTypesOnlyPackage(q).err = "OK"
                          /\ ~isTypesOnlyPackage(q).result
                 /\ FailingImports = {} =>
                       \A q \in OtherImports :
                          ListsHelperOf(list, q) <=> ~isTypesOnlyPackage(q).result
        /\ FailingImports = {} => genStatus = "OK"
        /\ FailingImports # {} =>
              /\ genStatus # "OK"
              /\ genStatus \in {isTypesOnlyPackage(q).err : q \in FailingImports}

\* an Android.bp whose package imports itself and both versions of a package,
\* 1.0 types-only and 1.1 with an interface: only the helper of 1.1 is listed
C21_Witness ==
    /\ Written
    /\ genStatus = "OK"
    /\ fqName = VendorPkg
    /\ {NfcPkg, Nfc11Pkg, VendorPkg} \subseteq importedPackagesHierarchy
    /\ isTypesOnlyPackage(NfcPkg).result
    /\ ~isTypesOnlyPackage(Nfc11Pkg).result
    /\ \E i \in AdapterHelpers(fqName, out) :
          /\ ListsHelperOf(out[i].shared_libs, Nfc11Pkg)
          /\ ~ListsHelperOf(out[i].shared_libs, NfcPkg)

(***************************************************************************)
(* C22.  The dependencies of the C++ library.                              *)
(***************************************************************************)
\* the fixed libraries every cc_library of a package links
BaseSharedLibs ==
    <<"libhidlbase", "libhidltransport", "libhwbinder", "liblog", "libutils", "libcutils">>

\* the library names of the imported packages that are not transport packages
ImportedLibraries ==
    {makeLibraryName(q) : q \in {p \in importedPackagesHierarchy : ~isHidlTransportPackage(p)}}

\* the library names of the transport packages of the model
TransportLibraries == {makeLibraryName(q) : q \in {p \in Packages : isHidlTransportPackage(p)}}

\* the dependency lists of a rule of the build file
DependencyLists(r) ==
    IF r.rule = "cc_library" THEN {r.shared_libs, r.export_shared_lib_headers}
    ELSE IF r.rule = "cc_test" THEN {r.shared_libs}
    ELSE {}

\* C22: in every Android.bp written, the shared_libs of the cc_library named
\* after the package is the six fixed libraries followed by the library names
\* of the imported packages that are not transport packages, each once, in
\* the order of their FQNames; and no shared_libs, export_shared_lib_headers
\* or cc_test list of the file names the library of a transport package.
C22_CppLibraryDeps ==
    Written =>
        /\ \A i \in Rules("cc_library", makeLibraryName(fqName)) :
              LET libs == out[i].shared_libs
                  deps == SubSeq(libs, Len(BaseSharedLibs) + 1, Len(libs))
              IN  /\ Len(libs) >= Len(BaseSharedLibs)
                  /\ SubSeq(libs, 1, Len(BaseSharedLibs)) = BaseSharedLibs
                  /\ Range(deps) = ImportedLibraries
                  /\ Len(deps) = Cardinality(ImportedLibraries)
                  /\ InOrderOf([k \in 1..Len(PackageOrder) |->
                                  makeLibraryName(PackageOrder[k])], deps)
        /\ \A i \in 1..Len(out) : \A list \in DependencyLists(out[i]) :
              Range(list) \cap TransportLibraries = {}

\* an Android.bp of a package that imports two versions of a package, the
\* transport package and itself: the library lists the two versions and
\* itself, and the adapter rules are written too
C22_Witness ==
    /\ Written
    /\ genStatus = "OK"
    /\ fqName = VendorPkg
    /\ importedPackagesHierarchy = {NfcPkg, Nfc11Pkg, BasePkg, VendorPkg}
    /\ \E i \in Rules("cc_library", makeLibraryName(fqName)) :
          out[i].shared_libs = BaseSharedLibs
              \o <<"android.hardware.nfc@1.0", "android.hardware.nfc@1.1",
                    "vendor.acme.foo@1.0">>
    /\ \E i \in 1..Len(out) : out[i].rule = "cc_test"

(***************************************************************************)
(* C23.  The constants genrule and the packages generated before.          *)
(***************************************************************************)
\* the java-constants genrules of the Android.bp written for fqName
ConstantsGenrules ==
    Rules("genrule", makeJavaLibraryName(fqName) \o "-constants_gen_java")

ConstantsPath == GenSanitizedPath(fqName) \o "Constants.java"

\* an earlier fqname of this invocation reached the constants genrule; argi
\* counts the fqnames already generated
EarlierConstants == \E i \in 1..argi : ReachesConstants(argv[i])

\* the Android.bp of fqName as the first package of a process writes it
ContentOfFirst ==
    AndroidBpContent(fqName, packageInterfaces, importedPackagesHierarchy, exportedTypes,
        typesAST, TRUE \in isTypesOnly, TRUE \in isJavaCompatible, generateForTest,
        FALSE).rules

\* C23 as the code has it: the out list of the java-constants genrule holds
\* the path of Constants.java for the first package of the invocation that
\* reaches the genrule, and is empty for every later one.
C23_FirstPackageOnly ==
    Written =>
        \A i \in ConstantsGenrules :
           out[i].out = IF EarlierConstants THEN <<>> ELSE <<ConstantsPath>>

\* the second fqname of an invocation exports a type, as the first did: its
\* java-constants genrule is written with an empty out list
C23_Witness ==
    /\ Written
    /\ argi = 1
    /\ fqName = argv[2]
    /\ exportedTypes # <<>>
    /\ ConstantsGenrules # {}
    /\ \A i \in ConstantsGenrules : out[i].out = <<>>

\* C23 as stated: for every package of the invocation that exports a type,
\* the out list of the java-constants genrule is the path of Constants.java
\* alone, and the Android.bp does not depend on the packages generated
\* before it.
C23_AsStated ==
    Written =>
        /\ \A i \in ConstantsGenrules : out[i].out = <<ConstantsPath>>
        /\ out = ContentOfFirst

(***************************************************************************)
(* C24.  The CHECK assertions on the generation path.                      *)
(***************************************************************************)
\* the generator the handler's entry of the formats table names
Generator == formats[outputFormat].generate

\* the analysis of generateAndroidBpForPackage has succeeded for fqName
Analysed == pc \in {"jc_call", "jc_loop", "jc_return"} \/ (pc = "gen_return" /\ out # <<>>)

\* the package has a types file
HasTypesFile == \E i \in 1..Len(packageInterfaces) : name(packageInterfaces[i]) = "types"

\* C24: no CHECK fails for a fqname that is valid and passed the validator of
\* the handler.  When a generator is called, it is not the null pointer of
\* the makefile entry; generationFunctionForFileOrPackage hands a
\* fully-qualified name to generateSourcesForFile, with a name that starts
\* with "types." only for java, and every other name, a valid package name
\* with an empty local name, to generateSourcesForPackage; the androidbp
\* generator and the export-header generator are called with a valid package
\* name with an empty local name; and once the analysis of androidbp has
\* succeeded for a package with a types file, typesAST is not null.
C24_ChecksHold ==
    /\ pc # "abort"
    /\ pc = "generate" =>
         /\ isValid(fqName) /\ Validate(formats[outputFormat], fqName)
         /\ Generator # "nullptr"
         /\ Generator = "generationFunctionForFileOrPackage" =>
               IF isFullyQualified(fqName)
               THEN StartsWithTypes(fqName) => formats[outputFormat].mKey = "java"
               ELSE IsPackageName(fqName)
         /\ Generator \in {"generateAndroidBpForPackage", "generateExportHeaderForPackage"} =>
               IsPackageName(fqName)
    /\ (outputFormat = FindFormat("androidbp") /\ Analysed /\ HasTypesFile) => ~typesAST.null

\* an Android.bp written for a package of a types file alone, for which
\* packageNeedsJavaCode read the sub-types of typesAST
C24_Witness ==
    /\ Written
    /\ outputFormat = FindFormat("androidbp")
    /\ Len(packageInterfaces) = 1
    /\ HasTypesFile
    /\ ~typesAST.null
    /\ genStatus = "OK"

(***************************************************************************)
(* C25.  androidbp opens Android.bp after the analysis.                    *)
(***************************************************************************)
\* enumeration, the parse of every interface and isTypesOnlyPackage succeed
\* for the package
AnalysisSucceeds(pkg) ==
    LET r == appendPackageInterfacesToVector(pkg) IN
    /\ r.err = "OK"
    /\ \A i \in 1..Len(r.v) : ~parse(r.v[i]).null
    /\ isTypesOnlyPackage(pkg).err = "OK"

\* isPackageJavaCompatible has returned OK to the generator
JavaCompatReturnedOK == pc = "jc_return" /\ jcStatus = "OK"

\* the step calls getFormatter
OpenStep == Len(log') > Len(log) /\ log'[Len(log')].op = "getFormatter"

\* the step returns from the generator
ReturnStep == pc # "gen_return" /\ pc' = "gen_return"

\* C25: under androidbp, a step calls getFormatter or changes a file only
\* when the enumeration of the package, the parse of each of its interfaces
\* (all recorded as done), isTypesOnlyPackage and isPackageJavaCompatible
\* have succeeded; and when one of them fails, the generator returns a
\* status other than OK without having called getFormatter and with every
\* file, an Android.bp of an earlier run included, as it was.
C25_OpensAfterAnalysis ==
    [][/\ (OpenStep \/ files' # files) =>
             /\ JavaCompatReturnedOK
             /\ AnalysisSucceeds(fqName)
             /\ packageInterfaces = appendPackageInterfacesToVector(fqName).v
             /\ \A i \in 1..Len(packageInterfaces) :
                   Parsed(packageInterfaces[i], "DEFAULT") \in Range(parses)
             /\ isTypesOnly # {}
       /\ (ReturnStep /\ ~(JavaCompatReturnedOK /\ AnalysisSucceeds(fqName))) =>
             /\ genStatus' \notin {"OK", "none"}
             /\ files' = files
             /\ ~OpenStep]_vars

\* isPackageJavaCompatible failed for a package whose directory holds an
\* Android.bp of an earlier run: the generator returned the error, getFormatter
\* was not called and the file is as it was
C25_Witness ==
    /\ pc = "gen_return"
    /\ fqName = NfcPkg
    /\ AnalysisSucceeds(fqName)
    /\ jcStatus \notin {"OK", "none"}
    /\ genStatus = jcStatus
    /\ files = (AndroidBpFile(NfcPkg) :> EarlierContent)
    /\ \A k \in 1..Len(log) : log[k].op # "getFormatter"

====
